---- MODULE Spec2Model ----
(***************************************************************************)
(* A model of the Vulkan bootstrap and frame loop of src/base/mod.rs:      *)
(* App::create (a chain of object creations, each of which may fail),      *)
(* App::render_frame (fence wait, acquire, fence wait, record, reset,      *)
(* submit, present, advance) running against an asynchronous GPU and       *)
(* presentation engine, App::destroy (wait idle, then an ordered           *)
(* teardown), and choose_device (the scan over the physical devices).      *)
(***************************************************************************)
EXTENDS Integers, Sequences, FiniteSets, TLC

VARIABLES
    N,                          \* the value of MAX_FRAMES_IN_FLIGHT in this build
    validation,                 \* VALIDATION_ENABLED of this build
    pc,                         \* where the single CPU thread is
    cstep,                      \* index of the next creation call of App::create
    dstep,                      \* index of the next destroy call of App::destroy
    objs,                       \* per object kind: "none", "alive" or "destroyed"
    idle_waited,                \* device_wait_idle of App::destroy has returned
    swapchain_images,           \* number of images of the swapchain
    frame,                      \* App.frame
    in_flight_fences,           \* slot -> TRUE when the fence is signalled
    image_available_semaphores, \* slot -> number of unconsumed signals
    render_finished_semaphores, \* slot -> number of unconsumed signals
    images_in_flight,           \* image -> slot whose fence it records, or NULL
    image_state,                \* image -> "Idle", "Acquired", "Submitted", "Presented"
    image_index,                \* render_frame's local image_index, or NULL
    submissions,                \* batches queued on the graphics queue, not yet complete
    presents,                   \* present requests queued, not yet executed
    calls,                      \* number of render_frame calls begun
    oks,                        \* number of render_frame calls that returned Ok
    result,                     \* what the last render_frame call returned
    acquire_status,             \* what the last vkAcquireNextImageKHR reported
    out_of_date,                \* number of out-of-date reports by the swapchain
    recreates,                  \* number of swapchain recreations triggered
    devices,                    \* choose_device: the enumerated physical devices
    chosen,                     \* choose_device: its outcome
    vert,                       \* byte length of shaders/vert.spv as built in
    frag,                       \* byte length of shaders/frag.spv as built in
    swapchain_support,          \* data.swapchain_support as choose_device left it
    window,                     \* window.inner_size()
    swapchain_create_info,      \* what create_swapchain asked the driver for
    swapchain_image_views,      \* image -> the view made for it
    command_buffers,            \* image -> the commands recorded for it
    main_pc,                    \* main.rs: the stage main stands at
    exit_code,                  \* main.rs: the exit code of the process, or NONE
    dispatched,                 \* main.rs: the events the event loop has dispatched
    phys_device,                \* data.phys_device as choose_device left it
    data_queue_family_indices,  \* data.queue_family_indices
    device_create_info,         \* what create_logical_device asked the driver for
    instance_create_info,       \* what create_instance asked the loader for
    framebuffers                \* image -> the framebuffer made for its view

vars == << N, validation, pc, cstep, dstep, objs, idle_waited, swapchain_images,
           frame, in_flight_fences, image_available_semaphores,
           render_finished_semaphores, images_in_flight, image_state, image_index,
           submissions, presents, calls, oks, result, acquire_status,
           out_of_date, recreates, devices, chosen, vert, frag,
           swapchain_support, window, swapchain_create_info,
           swapchain_image_views, command_buffers, main_pc, exit_code,
           dispatched, phys_device, data_queue_family_indices,
           device_create_info, instance_create_info, framebuffers >>

\* ------------------------------------------------------------------ bounds

\* largest MAX_FRAMES_IN_FLIGHT explored by SpecN
MaxN == 3
\* largest number of swapchain images the driver hands out
MaxImages == 2
\* number of events the event loop of main.rs dispatches
MaxEvents == 3
\* number of render_frame calls explored
MaxCalls == 4
\* longest list of physical devices enumerated
MaxDevices == 3
\* how many images more than asked for the driver may create
MaxExtraImages == 1
\* largest width or height of the surfaces and windows explored
MaxDim == 2
\* largest number of queue families of a physical device
MaxFamilies == 3
\* longest list of present modes reported
MaxModes == 3
\* longest list of surface formats reported
MaxFormats == 4
\* longest shader blob explored, in bytes
MaxShaderLen == 8

\* ------------------------------------------------------------- constants

\* The constant is used at base/mod.rs:193 and :791 but its definition is not
\* among the sources; the design document gives 2 as its value.
MAX_FRAMES_IN_FLIGHT == 2

\* vk::Fence::null()
NULL == -1

\* util/constants.rs: the size main asks for the window
WINDOW_HEIGHT == 600
WINDOW_WIDTH == 800

\* ------------------------------------------------------------- arithmetic

RECURSIVE BitAnd(_, _)
\* a & b on unsigned integers
BitAnd(a, b) ==
    IF a = 0 \/ b = 0 THEN 0
    ELSE (IF a % 2 = 1 /\ b % 2 = 1 THEN 1 ELSE 0) + 2 * BitAnd(a \div 2, b \div 2)

\* (self.frame + 1) & MAX_FRAMES_IN_FLIGHT
NextFrame(f, n) == BitAnd(f + 1, n)

Slots == 0 .. (N - 1)
Images == 0 .. (swapchain_images - 1)

\* ---------------------------------------------------------- choose_device

\* No queue family / no device
NONE == -1

\* device_extension_names of App::create on a platform other than macOS and iOS
RequiredDeviceExtensions == { "VK_KHR_swapchain" }

\* the least element of a set of indices, or 0 when there is none
First(hits) == IF hits = {} THEN 0 ELSE CHOOSE i \in hits : \A j \in hits : i <= j

\* position(|p| p.queue_flags.contains(GRAPHICS)), 1-based, 0 for None
FirstGraphics(families) ==
    First({ i \in 1 .. Len(families) : families[i].graphics })

\* the first family taken without asking whether it can present
FirstPresent_unchecked(families) == IF Len(families) > 0 THEN 1 ELSE 0

\* the first index whose get_physical_device_surface_support is true, 1-based,
\* 0 for None
FirstPresent(families) ==
    First({ i \in 1 .. Len(families) : families[i].present })

\* QueueFamilyIndices::get: the first family with the GRAPHICS flag and the
\* first family that can present to the surface, as 0-based indices; Err when
\* either is missing or when the surface-support query fails
QueueFamilyIndicesGet(d) ==
    LET graphics == FirstGraphics(d.families)
        present == FirstPresent(d.families)
    IN  IF d.error = "surface_support" /\ Len(d.families) > 0
        THEN [ ok |-> FALSE, graphics |-> NONE, present |-> NONE ]
        ELSE IF graphics # 0 /\ present # 0
        THEN [ ok |-> TRUE, graphics |-> graphics - 1, present |-> present - 1 ]
        ELSE [ ok |-> FALSE, graphics |-> NONE, present |-> NONE ]

\* the extension check passed without looking at the device's extensions
HasRequiredExtensions_unchecked(d) == TRUE

\* line 377: device_extension_names.iter().all(|e| extensions.contains(e))
HasRequiredExtensions(d) == \A e \in RequiredDeviceExtensions : e \in d.extensions

NotChosen == [ status |-> "none", device |-> 0, support |-> 0 ]

RECURSIVE Scan(_, _)
\* the loop of choose_device from device i on, followed by lines 398-406:
\* status Ok and the chosen device, or Err; support is the device whose
\* swapchain support ended up in data.swapchain_support (0: none)
Scan(devs, i) ==
    IF i > Len(devs)
    THEN [ status |-> "Err", device |-> 0, support |-> 0 ]
    ELSE LET d == devs[i]
         IN  IF ~QueueFamilyIndicesGet(d).ok
             THEN Scan(devs, i + 1)
             ELSE IF d.error = "extensions"
             THEN [ status |-> "Err", device |-> 0, support |-> 0 ]
             ELSE IF ~HasRequiredExtensions(d)
             THEN [ status |-> "Err", device |-> 0, support |-> 0 ]
             ELSE IF d.error = "swapchain_support"
             THEN [ status |-> "Err", device |-> 0, support |-> 0 ]
             ELSE IF d.formats = << >> \/ d.present_modes = << >>
             THEN [ status |-> "Err", device |-> 0, support |-> i ]
             ELSE [ status |-> "Ok", device |-> i, support |-> i ]

\* choose_device over the enumerated devices
choose_device(devs) == Scan(devs, 1)

\* line 419: create_logical_device resolves the queue family indices of the
\* selected device anew, into data.queue_family_indices
queue_family_indices(devs, selected) == QueueFamilyIndicesGet(devs[selected])

\* -------------------------------------------------------- create_instance

\* what ash_window::enumerate_required_extensions returns on a platform: the
\* surface extension and the one of the window system
PlatformExtensions == << "VK_KHR_surface", "VK_KHR_xlib_surface" >>

\* nothing asked of the loader yet
NoInstanceCreateInfo ==
    [ enabled_layer_names |-> << >>, enabled_extension_names |-> << >>,
      p_next |-> << >> ]

\* lines 232-298 on a platform other than macOS and iOS: the layer names are
\* passed as they are; the debug utils extension is pushed, and the messenger
\* create info chained, when VALIDATION_ENABLED
InstanceCreateInfo(validation_enabled) ==
    [ enabled_layer_names |-> << "VK_LAYER_KHRONOS_validation" >>,
      enabled_extension_names |->
          IF validation_enabled
          THEN Append(PlatformExtensions, "VK_EXT_debug_utils")
          ELSE PlatformExtensions,
      p_next |-> IF validation_enabled
                 THEN << "DebugUtilsMessengerCreateInfoEXT" >> ELSE << >> ]

\* ------------------------------------------------- create_logical_device

\* QueueFamilyIndices::default()
NoQueueFamilyIndices == [ graphics |-> 0, present |-> 0 ]

\* nothing asked of the driver yet
NoDeviceCreateInfo ==
    [ queue_create_infos |-> << >>, enabled_extension_names |-> {} ]

\* both indices taken as they come, equal or not
unique_indices_both(indices) == { << indices.graphics, indices.present >> }

\* lines 421-423, 427: the graphics and the present index put into a HashSet,
\* which holds an index once and is walked in an order of its own: the orders
\* in which its elements may come
unique_indices(indices) ==
    IF indices.graphics = indices.present
    THEN { << indices.graphics >> }
    ELSE { << indices.graphics, indices.present >>,
           << indices.present, indices.graphics >> }

\* lines 425-434: one vk::DeviceQueueCreateInfo per index, for one queue of
\* priority 1.0
QueueInfos(order) ==
    [ k \in 1 .. Len(order) |->
          [ queue_family_index |-> order[k], queue_priorities |-> << 1 >> ] ]

\* lines 438-441: the vk::DeviceCreateInfo for the indices in the given order
DeviceCreateInfo(order) ==
    [ queue_create_infos |-> QueueInfos(order),
      enabled_extension_names |-> RequiredDeviceExtensions ]

\* ------------------------------------------------------- create_swapchain

\* u32::MAX, which marks a surface whose size the swapchain decides. The
\* largest integer of TLC stands for 4294967295; the extents it is compared
\* with are all smaller.
u32_MAX == 2147483647

Extent2D(w, h) == [ width |-> w, height |-> h ]

\* a clamp that only caps
Clamp_max_only(v, min, max) == IF v > max THEN max ELSE v

\* u32::clamp(self, min, max) for min <= max
Clamp(v, min, max) == IF v < min THEN min ELSE IF v > max THEN max ELSE v

\* the first entry that is B8G8R8A8_SRGB, whatever its colour space
get_surface_format_any_space(support) ==
    LET hits == { i \in 1 .. Len(support.formats) :
                      support.formats[i].format = "B8G8R8A8_SRGB" }
    IN  IF hits # {} THEN support.formats[First(hits)] ELSE support.formats[1]

\* SwapchainSupport::get_surface_format: the first entry that is B8G8R8A8_SRGB
\* in the SRGB_NONLINEAR colour space, or else formats[0]
get_surface_format(support) ==
    LET hits == { i \in 1 .. Len(support.formats) :
                      /\ support.formats[i].format = "B8G8R8A8_SRGB"
                      /\ support.formats[i].color_space = "SRGB_NONLINEAR" }
    IN  IF hits # {} THEN support.formats[First(hits)] ELSE support.formats[1]

\* the first present mode reported
get_present_mode_first(support) == support.present_modes[1]

\* SwapchainSupport::get_present_mode: MAILBOX when reported, or else FIFO
get_present_mode(support) ==
    IF \E i \in 1 .. Len(support.present_modes) : support.present_modes[i] = "MAILBOX"
    THEN "MAILBOX" ELSE "FIFO"

\* the window's inner size, whatever the surface reports
get_extent_window(support, win) == Extent2D(win.width, win.height)

\* SwapchainSupport::get_extent: the surface's current extent unless its width
\* is u32::MAX, and then the window's inner size clamped per dimension
get_extent(support, win) ==
    LET c == support.capabilities
    IN  IF c.current_extent.width # u32_MAX
        THEN c.current_extent
        ELSE Extent2D(Clamp(win.width, c.min_image_extent.width,
                            c.max_image_extent.width),
                      Clamp(win.height, c.min_image_extent.height,
                            c.max_image_extent.height))

\* the cap applied without asking whether there is a maximum
swapchain_image_count_always_capped(capabilities) ==
    LET count == capabilities.min_image_count + 1
    IN  IF count > capabilities.max_image_count
        THEN capabilities.max_image_count
        ELSE count

\* lines 465-470: one image more than the minimum, capped by a nonzero maximum
swapchain_image_count(capabilities) ==
    LET count == capabilities.min_image_count + 1
    IN  IF capabilities.max_image_count # 0 /\ count > capabilities.max_image_count
        THEN capabilities.max_image_count
        ELSE count

\* lines 472-479: CONCURRENT between the graphics and the present family when
\* they differ, and else EXCLUSIVE with no family listed
image_sharing(indices) ==
    IF indices.graphics # indices.present
    THEN [ image_sharing_mode |-> "CONCURRENT",
           queue_family_indices |-> << indices.graphics, indices.present >> ]
    ELSE [ image_sharing_mode |-> "EXCLUSIVE", queue_family_indices |-> << >> ]

\* AppData::default(): nothing asked for yet
NoCreateInfo ==
    [ min_image_count |-> 0, image_format |-> "UNDEFINED",
      image_color_space |-> "SRGB_NONLINEAR", image_extent |-> Extent2D(0, 0),
      present_mode |-> "IMMEDIATE", image_sharing_mode |-> "EXCLUSIVE",
      queue_family_indices |-> << >> ]

\* lines 460-495: the fields of vk::SwapchainCreateInfoKHR that depend on the
\* surface, the window and the queue families
SwapchainCreateInfo(support, win, indices) ==
    [ min_image_count |-> swapchain_image_count(support.capabilities),
      image_format |-> get_surface_format(support).format,
      image_color_space |-> get_surface_format(support).color_space,
      image_extent |-> get_extent(support, win),
      present_mode |-> get_present_mode(support),
      image_sharing_mode |-> image_sharing(indices).image_sharing_mode,
      queue_family_indices |-> image_sharing(indices).queue_family_indices ]

\* vkCreateSwapchainKHR creates at least minImageCount images and, when the
\* surface has a maximum, at most that many
DriverImageCounts(info, capabilities) ==
    { n \in info.min_image_count .. (info.min_image_count + MaxExtraImages) :
          capabilities.max_image_count = 0 \/ n <= capabilities.max_image_count }

\* the views made while walking the images from the last to the first
CreateSwapchainImageViews_reversed(images, format) ==
    [ k \in images |-> [ image |-> Cardinality(images) - 1 - k, format |-> format ] ]

\* lines 525-537: one view per swapchain image, in the order of the images, in
\* the swapchain's format
CreateSwapchainImageViews(images, format) ==
    [ k \in images |-> [ image |-> k, format |-> format ] ]

\* ----------------------------------------------------- create_framebuffers

\* every framebuffer made on the first image view
CreateFramebuffers_first_view(views, extent) ==
    [ k \in DOMAIN views |->
          [ attachments |-> << 0 >>, width |-> extent.width,
            height |-> extent.height, layers |-> 1 ] ]

\* lines 708-720: one framebuffer per image view, in the order of the views,
\* with that view as its one attachment and the swapchain's extent
CreateFramebuffers(views, extent) ==
    [ k \in DOMAIN views |->
          [ attachments |-> << k >>, width |-> extent.width,
            height |-> extent.height, layers |-> 1 ] ]

\* ------------------------------------------------- create_command_buffers

\* every buffer recorded against the first framebuffer
RecordCommands_first_framebuffer(i) ==
    << [ op |-> "begin_command_buffer", args |-> << >> ],
       [ op |-> "cmd_begin_render_pass", args |-> << 0, << 0, 0, 0, 1 >> >> ],
       [ op |-> "cmd_bind_pipeline", args |-> << "GRAPHICS", "pipeline" >> ],
       [ op |-> "cmd_draw", args |-> << 3, 1, 0, 0 >> ],
       [ op |-> "cmd_end_render_pass", args |-> << >> ],
       [ op |-> "end_command_buffer", args |-> << >> ] >>

\* lines 748-776: what is recorded into the command buffer of index i: the
\* render pass begins on framebuffers[i] with the clear colour (0, 0, 0, 1)
RecordCommands(i) ==
    << [ op |-> "begin_command_buffer", args |-> << >> ],
       [ op |-> "cmd_begin_render_pass", args |-> << i, << 0, 0, 0, 1 >> >> ],
       [ op |-> "cmd_bind_pipeline", args |-> << "GRAPHICS", "pipeline" >> ],
       [ op |-> "cmd_draw", args |-> << 3, 1, 0, 0 >> ],
       [ op |-> "cmd_end_render_pass", args |-> << >> ],
       [ op |-> "end_command_buffer", args |-> << >> ] >>

\* the loop of lines 748-777 stopped by a failure at buffer j: the buffers
\* before j are recorded; j is untouched when begin_command_buffer failed and
\* holds its commands, not ended, when end_command_buffer failed
RecordingStoppedAt(images, j, ended) ==
    [ k \in images |-> IF k < j THEN RecordCommands(k)
                       ELSE IF k = j /\ ended THEN SubSeq(RecordCommands(k), 1, 5)
                       ELSE << >> ]

\* ---------------------------------------------------------- Bytecode::from

\* util/mod.rs:38: a blob is taken when it is not empty and its length is a
\* multiple of 4
BytecodeFrom(len) == ~(len = 0 \/ len % 4 # 0)

\* ------------------------------------------------------------ App::create

Kinds == { "instance", "debug_call_back", "surface", "device", "swapchain",
           "swapchain_image_views", "render_pass", "vert_shader_module",
           "frag_shader_module", "pipeline_layout", "pipeline", "framebuffers",
           "command_pool", "command_buffers", "image_available_semaphores",
           "render_finished_semaphores", "in_flight_fences" }

\* The Vulkan calls of App::create in program order. makes: the object kinds a
\* successful call leaves alive; frees: the kinds it destroys; fails: how a
\* failure of the call leaves create ("err": Err returned through `?`,
\* "panic": unwrap/expect); partial: what a failing call may already have
\* created (the loops over images and slots stop at the first failure);
\* validation_only: the call is made only when VALIDATION_ENABLED.
CreateCalls == <<
    [ call |-> "enumerate_required_extensions", makes |-> {}, frees |-> {},
      fails |-> {"err", "panic"}, partial |-> {{}}, validation_only |-> FALSE ],
    [ call |-> "create_instance", makes |-> {"instance"}, frees |-> {},
      fails |-> {"panic"}, partial |-> {{}}, validation_only |-> FALSE ],
    [ call |-> "create_debug_utils_messenger", makes |-> {"debug_call_back"},
      frees |-> {}, fails |-> {"err"}, partial |-> {{}}, validation_only |-> TRUE ],
    [ call |-> "create_surface", makes |-> {"surface"}, frees |-> {},
      fails |-> {"err"}, partial |-> {{}}, validation_only |-> FALSE ],
    [ call |-> "choose_device", makes |-> {}, frees |-> {},
      fails |-> {"err"}, partial |-> {{}}, validation_only |-> FALSE ],
    [ call |-> "create_logical_device", makes |-> {"device"}, frees |-> {},
      fails |-> {"err"}, partial |-> {{}}, validation_only |-> FALSE ],
    [ call |-> "create_swapchain", makes |-> {"swapchain"}, frees |-> {},
      fails |-> {"panic"}, partial |-> {{}}, validation_only |-> FALSE ],
    [ call |-> "get_swapchain_images", makes |-> {}, frees |-> {},
      fails |-> {"err"}, partial |-> {{}}, validation_only |-> FALSE ],
    [ call |-> "create_swapchain_image_views", makes |-> {"swapchain_image_views"},
      frees |-> {}, fails |-> {"err"},
      partial |-> {{}, {"swapchain_image_views"}}, validation_only |-> FALSE ],
    [ call |-> "create_render_pass", makes |-> {"render_pass"}, frees |-> {},
      fails |-> {"err"}, partial |-> {{}}, validation_only |-> FALSE ],
    [ call |-> "create_shader_module_vert", makes |-> {"vert_shader_module"},
      frees |-> {}, fails |-> {"err"}, partial |-> {{}}, validation_only |-> FALSE ],
    [ call |-> "create_shader_module_frag", makes |-> {"frag_shader_module"},
      frees |-> {}, fails |-> {"err"}, partial |-> {{}}, validation_only |-> FALSE ],
    [ call |-> "create_pipeline_layout", makes |-> {"pipeline_layout"}, frees |-> {},
      fails |-> {"err"}, partial |-> {{}}, validation_only |-> FALSE ],
    [ call |-> "create_graphics_pipelines", makes |-> {"pipeline"}, frees |-> {},
      fails |-> {"panic"}, partial |-> {{}}, validation_only |-> FALSE ],
    [ call |-> "destroy_shader_modules", makes |-> {},
      frees |-> {"vert_shader_module", "frag_shader_module"},
      fails |-> {}, partial |-> {{}}, validation_only |-> FALSE ],
    [ call |-> "create_framebuffers", makes |-> {"framebuffers"}, frees |-> {},
      fails |-> {"err"}, partial |-> {{}, {"framebuffers"}}, validation_only |-> FALSE ],
    [ call |-> "create_command_pool", makes |-> {"command_pool"}, frees |-> {},
      fails |-> {"err"}, partial |-> {{}}, validation_only |-> FALSE ],
    [ call |-> "create_command_buffers", makes |-> {"command_buffers"}, frees |-> {},
      fails |-> {"err"}, partial |-> {{}, {"command_buffers"}}, validation_only |-> FALSE ],
    [ call |-> "create_sync_objects",
      makes |-> {"image_available_semaphores", "render_finished_semaphores",
                 "in_flight_fences"},
      frees |-> {}, fails |-> {"err"},
      partial |-> {{}, {"image_available_semaphores"},
                   {"image_available_semaphores", "render_finished_semaphores"},
                   {"image_available_semaphores", "render_finished_semaphores",
                    "in_flight_fences"}},
      validation_only |-> FALSE ] >>

\* the call is made in this build
Applies(c) == c.validation_only => validation

\* the objects after a set of kinds was created and a set destroyed
Mark(o, made, freed) ==
    [ k \in Kinds |-> IF k \in freed THEN "destroyed"
                      ELSE IF k \in made THEN "alive" ELSE o[k] ]

Alive(k) == objs[k] = "alive"

FrameVars == << frame, in_flight_fences, image_available_semaphores,
                render_finished_semaphores, images_in_flight, image_state,
                image_index, submissions, presents, calls, oks, result,
                acquire_status, out_of_date, recreates >>
ChooseVars == << devices, chosen >>
BuildVars == << N, validation, vert, frag >>
SurfaceVars == << swapchain_support, window, phys_device >>
DeviceVars == << data_queue_family_indices, device_create_info >>
DataVars == << swapchain_create_info, swapchain_image_views, command_buffers,
              DeviceVars, instance_create_info, framebuffers >>
MainVars == << main_pc, exit_code, dispatched >>

\* get_swapchain_images: the driver reports how many images the swapchain has
GetSwapchainImages(n) ==
    /\ swapchain_images' = n
    /\ image_state' = [ k \in 0 .. (n - 1) |-> "Idle" ]

\* the fences created without FenceCreateFlags::SIGNALED
CreateSyncObjects_unsignalled ==
    /\ in_flight_fences' = [ s \in Slots |-> FALSE ]
    /\ image_available_semaphores' = [ s \in Slots |-> 0 ]
    /\ render_finished_semaphores' = [ s \in Slots |-> 0 ]
    /\ images_in_flight' = [ k \in Images |-> NULL ]

\* create_sync_objects: N fences created signalled, 2N semaphores, and one null
\* fence reference per swapchain image
CreateSyncObjects ==
    /\ in_flight_fences' = [ s \in Slots |-> TRUE ]
    /\ image_available_semaphores' = [ s \in Slots |-> 0 ]
    /\ render_finished_semaphores' = [ s \in Slots |-> 0 ]
    /\ images_in_flight' = [ k \in Images |-> NULL ]

\* one call of App::create succeeds (or is not made in this build); after the
\* last one App is constructed with frame = 0
CreateOk ==
    /\ pc = "create"
    /\ LET c == CreateCalls[cstep]
           made == IF Applies(c) THEN c.makes ELSE {}
       IN  /\ objs' = Mark(objs, made, c.frees)
           /\ c.call = "create_shader_module_vert" => BytecodeFrom(vert)
           /\ c.call = "create_shader_module_frag" => BytecodeFrom(frag)
           /\ swapchain_create_info' =
                  IF c.call = "create_swapchain"
                  THEN SwapchainCreateInfo(swapchain_support, window,
                                           data_queue_family_indices)
                  ELSE swapchain_create_info
           /\ instance_create_info' =
                  IF c.call = "create_instance"
                  THEN InstanceCreateInfo(validation)
                  ELSE instance_create_info
           /\ IF c.call = "create_logical_device"
              THEN LET got == QueueFamilyIndicesGet(phys_device)
                   IN  /\ got.ok
                       /\ data_queue_family_indices' =
                              [ graphics |-> got.graphics, present |-> got.present ]
                       /\ \E order \in unique_indices(data_queue_family_indices') :
                              device_create_info' = DeviceCreateInfo(order)
              ELSE UNCHANGED DeviceVars
           /\ IF c.call = "get_swapchain_images"
              THEN \E n \in DriverImageCounts(swapchain_create_info,
                                              swapchain_support.capabilities) :
                       GetSwapchainImages(n)
              ELSE UNCHANGED << swapchain_images, image_state >>
           /\ swapchain_image_views' =
                  IF c.call = "create_swapchain_image_views"
                  THEN CreateSwapchainImageViews(Images,
                                                 swapchain_create_info.image_format)
                  ELSE swapchain_image_views
           /\ framebuffers' =
                  IF c.call = "create_framebuffers"
                  THEN CreateFramebuffers(swapchain_image_views,
                                          swapchain_create_info.image_extent)
                  ELSE framebuffers
           /\ command_buffers' =
                  IF c.call = "create_command_buffers"
                  THEN [ k \in DOMAIN framebuffers |-> RecordCommands(k) ]
                  ELSE command_buffers
           /\ IF c.call = "create_sync_objects"
              THEN CreateSyncObjects
              ELSE UNCHANGED << in_flight_fences, image_available_semaphores,
                                render_finished_semaphores, images_in_flight >>
    /\ IF cstep = Len(CreateCalls)
       THEN pc' = "idle" /\ cstep' = cstep
       ELSE pc' = "create" /\ cstep' = cstep + 1
    /\ frame' = 0
    /\ UNCHANGED << BuildVars, MainVars, SurfaceVars, dstep, idle_waited, image_index,
                    submissions, presents, calls, oks, result, acquire_status,
                    out_of_date, recreates, ChooseVars >>

\* one call of App::create fails: `?` returns Err from create, unwrap/expect
\* panics; either way nothing created so far is released. A failure within
\* create_command_buffers after the allocation leaves the recording unfinished;
\* the views and framebuffers of a failed collect() are never stored.
CreateFail(mode) ==
    /\ pc = "create"
    /\ LET c == CreateCalls[cstep]
       IN  /\ Applies(c)
           /\ mode \in c.fails
           /\ \E part \in c.partial :
                  /\ objs' = Mark(objs, part, {})
                  /\ IF c.call = "create_command_buffers" /\ part # {}
                     THEN \E j \in Images, ended \in BOOLEAN :
                              command_buffers' = RecordingStoppedAt(Images, j, ended)
                     ELSE UNCHANGED command_buffers
    /\ pc' = IF mode = "panic" THEN "panic_create" ELSE "create_err"
    /\ UNCHANGED << BuildVars, MainVars, SurfaceVars, swapchain_create_info,
                    swapchain_image_views, DeviceVars, instance_create_info,
                    framebuffers, cstep,
                    dstep, idle_waited,
                    swapchain_images, FrameVars, ChooseVars >>

\* ------------------------------------------------------ App::render_frame

\* `?` in render_frame: the error is returned to the caller, the locals die
ReturnErr(status) ==
    /\ pc' = "idle"
    /\ result' = status
    /\ image_index' = NULL

\* The caller of render_frame is not among the sources. As the design document
\* has it, the caller rebuilds the swapchain after an out-of-date result before
\* it renders again.
CallerMayRender == result # "ERROR_OUT_OF_DATE_KHR"

\* the caller invokes render_frame; in_flight_fences[self.frame] is an indexing
\* of a Vec, which panics when frame is out of range
RenderFrameBegin ==
    /\ pc = "idle"
    /\ CallerMayRender
    /\ calls < MaxCalls
    /\ calls' = calls + 1
    /\ acquire_status' = "none"
    /\ pc' = IF frame \in Slots THEN "wait_slot" ELSE "panic_index"
    /\ UNCHANGED << BuildVars, MainVars, SurfaceVars, DataVars, cstep, dstep, objs, idle_waited, swapchain_images,
                    frame, in_flight_fences, image_available_semaphores,
                    render_finished_semaphores, images_in_flight, image_state,
                    image_index, submissions, presents, oks, result, out_of_date,
                    recreates, ChooseVars >>

\* a wait that returns at once, whatever the fence's state
WaitForFences_no_wait(f) == TRUE

\* wait_for_fences(&[fence], true, u64::MAX) returns Ok once the fence of slot f
\* is signalled
WaitForFences(f) == in_flight_fences[f]

\* the fence of the neighbouring slot
SlotFence_neighbour == (frame + 1) % N

\* the fence render_frame waits on first: in_flight_fences[self.frame]
SlotFence == frame

\* the slot's fence reset as soon as its wait has returned
WaitSlotFence_then_reset ==
    /\ pc = "wait_slot"
    /\ \/ /\ WaitForFences(SlotFence)
          /\ in_flight_fences' = [ in_flight_fences EXCEPT ![frame] = FALSE ]
          /\ pc' = "acquire"
          /\ UNCHANGED << result, image_index >>
       \/ /\ ReturnErr("ERROR_OUT_OF_HOST_MEMORY")
          /\ UNCHANGED in_flight_fences
    /\ UNCHANGED << BuildVars, MainVars, SurfaceVars, DataVars, cstep, dstep, objs, idle_waited, swapchain_images,
                    frame, image_available_semaphores,
                    render_finished_semaphores, images_in_flight, image_state,
                    submissions, presents, calls, oks, acquire_status, out_of_date,
                    recreates, ChooseVars >>

\* line 152: the wait on the slot's fence returns, or fails
WaitSlotFence ==
    /\ pc = "wait_slot"
    /\ \/ /\ WaitForFences(SlotFence)
          /\ pc' = "acquire"
          /\ UNCHANGED << result, image_index >>
       \/ ReturnErr("ERROR_OUT_OF_HOST_MEMORY")
    /\ UNCHANGED << BuildVars, MainVars, SurfaceVars, DataVars, cstep, dstep, objs, idle_waited, swapchain_images,
                    frame, in_flight_fences, image_available_semaphores,
                    render_finished_semaphores, images_in_flight, image_state,
                    submissions, presents, calls, oks, acquire_status, out_of_date,
                    recreates, ChooseVars >>

\* lines 154-161: the presentation engine hands out image k, which it owns, and
\* will signal image_available_semaphores[frame]
AcquireOk(k) ==
    /\ pc = "acquire"
    /\ image_state[k] = "Idle"
    /\ image_state' = [ image_state EXCEPT ![k] = "Acquired" ]
    /\ image_index' = k
    /\ image_available_semaphores' =
           [ image_available_semaphores EXCEPT ![frame] = @ + 1 ]
    /\ acquire_status' = "SUCCESS"
    /\ pc' = "wait_image"
    /\ UNCHANGED << BuildVars, MainVars, SurfaceVars, DataVars, cstep, dstep, objs, idle_waited, swapchain_images,
                    frame, in_flight_fences, render_finished_semaphores,
                    images_in_flight, submissions, presents, calls, oks, result,
                    out_of_date, recreates, ChooseVars >>

AcquireFailures == { "ERROR_OUT_OF_DATE_KHR", "ERROR_OUT_OF_HOST_MEMORY" }

\* the failure unwrapped instead of returned: the process panics
AcquireErr_unwrap(status) ==
    /\ pc = "acquire"
    /\ acquire_status' = status
    /\ out_of_date' = out_of_date + (IF status = "ERROR_OUT_OF_DATE_KHR" THEN 1 ELSE 0)
    /\ pc' = "panic_acquire"
    /\ UNCHANGED << BuildVars, MainVars, SurfaceVars, DataVars, cstep, dstep, objs, idle_waited, swapchain_images,
                    frame, in_flight_fences, image_available_semaphores,
                    render_finished_semaphores, images_in_flight, image_state,
                    image_index, submissions, presents, calls, oks, result,
                    recreates, ChooseVars >>

\* the slot's fence reset before the acquisition instead of before the submit
AcquireErr_fence_reset(status) ==
    /\ pc = "acquire"
    /\ acquire_status' = status
    /\ out_of_date' = out_of_date + (IF status = "ERROR_OUT_OF_DATE_KHR" THEN 1 ELSE 0)
    /\ in_flight_fences' = [ in_flight_fences EXCEPT ![frame] = FALSE ]
    /\ ReturnErr(status)
    /\ UNCHANGED << BuildVars, MainVars, SurfaceVars, DataVars, cstep, dstep, objs, idle_waited, swapchain_images,
                    frame, image_available_semaphores, render_finished_semaphores,
                    images_in_flight, image_state, submissions, presents, calls, oks,
                    recreates, ChooseVars >>

\* lines 154-160: the acquisition reports a failure, which `?` returns
AcquireErr(status) ==
    /\ pc = "acquire"
    /\ acquire_status' = status
    /\ out_of_date' = out_of_date + (IF status = "ERROR_OUT_OF_DATE_KHR" THEN 1 ELSE 0)
    /\ ReturnErr(status)
    /\ UNCHANGED << BuildVars, MainVars, SurfaceVars, DataVars, cstep, dstep, objs, idle_waited, swapchain_images,
                    frame, in_flight_fences, image_available_semaphores,
                    render_finished_semaphores, images_in_flight, image_state,
                    submissions, presents, calls, oks, recreates, ChooseVars >>

\* lines 163-166: wait on the fence recorded for the image, if there is one
WaitImageFence ==
    /\ pc = "wait_image"
    /\ LET image_in_flight == images_in_flight[image_index]
       IN  \/ /\ IF image_in_flight = NULL THEN TRUE ELSE WaitForFences(image_in_flight)
              /\ pc' = "record"
              /\ UNCHANGED << result, image_index >>
           \/ /\ image_in_flight # NULL
              /\ ReturnErr("ERROR_OUT_OF_HOST_MEMORY")
    /\ UNCHANGED << BuildVars, MainVars, SurfaceVars, DataVars, cstep, dstep, objs, idle_waited, swapchain_images,
                    frame, in_flight_fences, image_available_semaphores,
                    render_finished_semaphores, images_in_flight, image_state,
                    submissions, presents, calls, oks, acquire_status, out_of_date,
                    recreates, ChooseVars >>

\* the image's fence reference left as it was
RecordImageInFlight_skip ==
    /\ pc = "record"
    /\ pc' = "reset"
    /\ UNCHANGED << BuildVars, MainVars, SurfaceVars, DataVars, cstep, dstep, objs, idle_waited, swapchain_images,
                    frame, in_flight_fences, image_available_semaphores,
                    render_finished_semaphores, images_in_flight, image_state,
                    image_index, submissions, presents, calls, oks, result,
                    acquire_status, out_of_date, recreates, ChooseVars >>

\* the slot's fence recorded for every image of the swapchain
RecordImageInFlight_every_image ==
    /\ pc = "record"
    /\ images_in_flight' = [ k \in Images |-> frame ]
    /\ pc' = "reset"
    /\ UNCHANGED << BuildVars, MainVars, SurfaceVars, DataVars, cstep, dstep, objs, idle_waited, swapchain_images,
                    frame, in_flight_fences, image_available_semaphores,
                    render_finished_semaphores, image_state, image_index,
                    submissions, presents, calls, oks, result, acquire_status,
                    out_of_date, recreates, ChooseVars >>

\* line 168: images_in_flight[image_index] = in_flight_fence
RecordImageInFlight ==
    /\ pc = "record"
    /\ images_in_flight' = [ images_in_flight EXCEPT ![image_index] = frame ]
    /\ pc' = "reset"
    /\ UNCHANGED << BuildVars, MainVars, SurfaceVars, DataVars, cstep, dstep, objs, idle_waited, swapchain_images,
                    frame, in_flight_fences, image_available_semaphores,
                    render_finished_semaphores, image_state, image_index,
                    submissions, presents, calls, oks, result, acquire_status,
                    out_of_date, recreates, ChooseVars >>

\* line 180: reset_fences(&[in_flight_fence]) unsignals the slot's fence, or fails
ResetFences ==
    /\ pc = "reset"
    /\ \/ /\ in_flight_fences' = [ in_flight_fences EXCEPT ![frame] = FALSE ]
          /\ pc' = "submit"
          /\ UNCHANGED << result, image_index >>
       \/ /\ ReturnErr("ERROR_OUT_OF_HOST_MEMORY")
          /\ UNCHANGED in_flight_fences
    /\ UNCHANGED << BuildVars, MainVars, SurfaceVars, DataVars, cstep, dstep, objs, idle_waited, swapchain_images,
                    frame, image_available_semaphores, render_finished_semaphores,
                    images_in_flight, image_state, submissions, presents, calls, oks,
                    acquire_status, out_of_date, recreates, ChooseVars >>

\* the batch of lines 170-182: command_buffers[image_index], waiting on
\* image_available_semaphores[frame], signalling render_finished_semaphores[frame]
\* and in_flight_fences[frame]
Batch == [ slot |-> frame, image |-> image_index, call |-> calls,
           wait_dst_stage_mask |-> "COLOR_ATTACHMENT_OUTPUT" ]

\* the batch of the first command buffer, whatever image was acquired
QueueSubmit_first_image ==
    /\ pc = "submit"
    /\ \/ /\ submissions' = submissions \cup { [ Batch EXCEPT !.image = 0 ] }
          /\ image_state' = [ image_state EXCEPT ![0] = "Submitted" ]
          /\ pc' = "present"
          /\ UNCHANGED << result, image_index >>
       \/ /\ ReturnErr("ERROR_OUT_OF_HOST_MEMORY")
          /\ UNCHANGED << submissions, image_state >>
    /\ UNCHANGED << BuildVars, MainVars, SurfaceVars, DataVars, cstep, dstep, objs, idle_waited, swapchain_images,
                    frame, in_flight_fences, image_available_semaphores,
                    render_finished_semaphores, images_in_flight, presents, calls, oks,
                    acquire_status, out_of_date, recreates, ChooseVars >>

\* line 182: queue_submit queues the batch, or fails
QueueSubmit ==
    /\ pc = "submit"
    /\ \/ /\ submissions' = submissions \cup { Batch }
          /\ image_state' = [ image_state EXCEPT ![image_index] = "Submitted" ]
          /\ pc' = "present"
          /\ UNCHANGED << result, image_index >>
       \/ /\ ReturnErr("ERROR_OUT_OF_HOST_MEMORY")
          /\ UNCHANGED << submissions, image_state >>
    /\ UNCHANGED << BuildVars, MainVars, SurfaceVars, DataVars, cstep, dstep, objs, idle_waited, swapchain_images,
                    frame, in_flight_fences, image_available_semaphores,
                    render_finished_semaphores, images_in_flight, presents, calls, oks,
                    acquire_status, out_of_date, recreates, ChooseVars >>

\* the present request of lines 184-189: image image_index of the swapchain,
\* waiting on render_finished_semaphores[frame]
PresentInfo == [ slot |-> frame, image |-> image_index, call |-> calls ]

\* lines 184-195: queue_present queues the present request, which waits on
\* render_finished_semaphores[frame]; then the frame index advances and Ok returns
QueuePresentOk ==
    /\ pc = "present"
    /\ presents' = presents \cup { PresentInfo }
    /\ image_state' = [ image_state EXCEPT ![image_index] = "Presented" ]
    /\ frame' = NextFrame(frame, N)
    /\ result' = "Ok"
    /\ oks' = oks + 1
    /\ image_index' = NULL
    /\ pc' = "idle"
    /\ UNCHANGED << BuildVars, MainVars, SurfaceVars, DataVars, cstep, dstep, objs, idle_waited, swapchain_images,
                    in_flight_fences, image_available_semaphores,
                    render_finished_semaphores, images_in_flight, submissions, calls,
                    acquire_status, out_of_date, recreates, ChooseVars >>

\* line 191: queue_present fails and `?` returns before the frame index advances.
\* A request rejected as out of date is still queued (its semaphore wait
\* executes); any other failure queues nothing.
QueuePresentErr(status) ==
    /\ pc = "present"
    /\ IF status = "ERROR_OUT_OF_DATE_KHR"
       THEN /\ presents' = presents \cup { PresentInfo }
            /\ image_state' = [ image_state EXCEPT ![image_index] = "Presented" ]
       ELSE UNCHANGED << presents, image_state >>
    /\ out_of_date' = out_of_date + (IF status = "ERROR_OUT_OF_DATE_KHR" THEN 1 ELSE 0)
    /\ ReturnErr(status)
    /\ UNCHANGED << BuildVars, MainVars, SurfaceVars, DataVars, cstep, dstep, objs, idle_waited, swapchain_images,
                    frame, in_flight_fences, image_available_semaphores,
                    render_finished_semaphores, images_in_flight, submissions, calls, oks,
                    acquire_status, recreates, ChooseVars >>

\* ------------------------------------- the GPU and the presentation engine

\* a queued batch executes once its wait semaphore is signalled: it consumes
\* that signal, and on completion signals its render-finished semaphore and
\* its fence
GpuComplete(b) ==
    /\ b \in submissions
    /\ image_available_semaphores[b.slot] > 0
    /\ image_available_semaphores' =
           [ image_available_semaphores EXCEPT ![b.slot] = @ - 1 ]
    /\ render_finished_semaphores' =
           [ render_finished_semaphores EXCEPT ![b.slot] = @ + 1 ]
    /\ in_flight_fences' = [ in_flight_fences EXCEPT ![b.slot] = TRUE ]
    /\ submissions' = submissions \ { b }
    /\ UNCHANGED << BuildVars, MainVars, SurfaceVars, DataVars, pc, cstep, dstep, objs, idle_waited, swapchain_images,
                    frame, images_in_flight, image_state, image_index, presents,
                    calls, oks, result, acquire_status, out_of_date, recreates,
                    ChooseVars >>

\* a queued present request executes once its wait semaphore is signalled: it
\* consumes that signal, shows the image and hands it back for acquisition
PresentComplete(p) ==
    /\ p \in presents
    /\ render_finished_semaphores[p.slot] > 0
    /\ render_finished_semaphores' =
           [ render_finished_semaphores EXCEPT ![p.slot] = @ - 1 ]
    /\ image_state' = [ image_state EXCEPT ![p.image] = "Idle" ]
    /\ presents' = presents \ { p }
    /\ UNCHANGED << BuildVars, MainVars, SurfaceVars, DataVars, pc, cstep, dstep, objs, idle_waited, swapchain_images,
                    frame, in_flight_fences, image_available_semaphores,
                    images_in_flight, image_index, submissions, calls, oks, result,
                    acquire_status, out_of_date, recreates, ChooseVars >>

DeviceIdle == submissions = {} /\ presents = {}

\* ------------------------------------------------------------- the caller

\* An out-of-date result makes the caller rebuild the swapchain, once, before
\* the next frame (the design document; see CallerMayRender): the device drains, the images are new ones and no
\* fence is recorded for them.
RecreateSwapchain ==
    /\ pc = "idle"
    /\ result = "ERROR_OUT_OF_DATE_KHR"
    /\ DeviceIdle
    /\ recreates' = recreates + 1
    /\ result' = "Recreated"
    /\ image_state' = [ k \in Images |-> "Idle" ]
    /\ images_in_flight' = [ k \in Images |-> NULL ]
    /\ UNCHANGED << BuildVars, MainVars, SurfaceVars, DataVars, pc, cstep, dstep, objs, idle_waited, swapchain_images,
                    frame, in_flight_fences, image_available_semaphores,
                    render_finished_semaphores, image_index, submissions, presents,
                    calls, oks, acquire_status, out_of_date, ChooseVars >>

\* ----------------------------------------------------------- App::destroy

\* the logical device destroyed before the swapchain made from it
DestroyOrder_device_early ==
    << "in_flight_fences", "render_finished_semaphores",
       "image_available_semaphores", "command_pool", "framebuffers", "pipeline",
       "pipeline_layout", "render_pass", "swapchain_image_views", "device",
       "swapchain", "surface", "debug_call_back", "instance" >>

\* lines 201-218, in program order
DestroyOrder == << "in_flight_fences", "render_finished_semaphores",
                   "image_available_semaphores", "command_pool", "framebuffers",
                   "pipeline", "pipeline_layout", "render_pass",
                   "swapchain_image_views", "swapchain", "device", "surface",
                   "debug_call_back", "instance" >>

\* what a destroy call releases: destroying the command pool frees the command
\* buffers allocated from it
Releases(k) == IF k = "command_pool" THEN { "command_pool", "command_buffers" } ELSE { k }

\* lines 214-216: the debug messenger is destroyed only when VALIDATION_ENABLED
DestroyApplies(k) == k = "debug_call_back" => validation

\* the objects each kind is created from: the handles its creation call is made
\* on or is given (a pipeline keeps no reference to its shader modules)
CreatedFrom(k) ==
    CASE k = "instance" -> {}
      [] k \in { "debug_call_back", "surface", "device" } -> { "instance" }
      [] k = "swapchain" -> { "device", "surface" }
      [] k = "swapchain_image_views" -> { "device", "swapchain" }
      [] k = "pipeline" -> { "device", "pipeline_layout", "render_pass" }
      [] k = "framebuffers" -> { "device", "render_pass", "swapchain_image_views" }
      [] k = "command_buffers" -> { "device", "command_pool" }
      [] OTHER -> { "device" }

\* the caller shuts down between two frames
DestroyBegin ==
    /\ pc = "idle"
    /\ CallerMayRender
    /\ pc' = "destroy_wait"
    /\ UNCHANGED << BuildVars, MainVars, SurfaceVars, DataVars, cstep, dstep, objs, idle_waited, swapchain_images,
                    FrameVars, ChooseVars >>

\* line 199: device_wait_idle().unwrap() returns once all queued work is done,
\* or panics
DeviceWaitIdle ==
    /\ pc = "destroy_wait"
    /\ \/ /\ DeviceIdle
          /\ idle_waited' = TRUE
          /\ pc' = "destroy"
       \/ /\ pc' = "panic_destroy"
          /\ UNCHANGED idle_waited
    /\ UNCHANGED << BuildVars, MainVars, SurfaceVars, DataVars, cstep, dstep, objs, swapchain_images, FrameVars,
                    ChooseVars >>

\* lines 201-218: the next destroy call of App::destroy
DestroyStep ==
    /\ pc = "destroy"
    /\ LET k == DestroyOrder[dstep]
       IN  objs' = Mark(objs, {}, IF DestroyApplies(k) THEN Releases(k) ELSE {})
    /\ IF dstep = Len(DestroyOrder)
       THEN pc' = "destroyed" /\ dstep' = dstep
       ELSE pc' = "destroy" /\ dstep' = dstep + 1
    /\ UNCHANGED << BuildVars, MainVars, SurfaceVars, DataVars, cstep, idle_waited, swapchain_images, FrameVars,
                    ChooseVars >>

\* ------------------------------------------------------ the specifications

\* the state before App::create, in a build with n frames in flight
InitApp(n) ==
    /\ N = n
    /\ validation \in BOOLEAN
    /\ pc = "create"
    /\ cstep = 1
    /\ dstep = 1
    /\ objs = [ k \in Kinds |-> "none" ]
    /\ idle_waited = FALSE
    /\ swapchain_images = 0
    /\ frame = 0
    /\ in_flight_fences = << >>
    /\ image_available_semaphores = << >>
    /\ render_finished_semaphores = << >>
    /\ images_in_flight = << >>
    /\ image_state = << >>
    /\ image_index = NULL
    /\ submissions = {}
    /\ presents = {}
    /\ calls = 0
    /\ oks = 0
    /\ result = "none"
    /\ acquire_status = "none"
    /\ out_of_date = 0
    /\ recreates = 0
    /\ chosen = NotChosen
    /\ swapchain_create_info = NoCreateInfo
    /\ data_queue_family_indices = NoQueueFamilyIndices
    /\ device_create_info = NoDeviceCreateInfo
    /\ instance_create_info = NoInstanceCreateInfo
    /\ framebuffers = << >>
    /\ swapchain_image_views = << >>
    /\ command_buffers = << >>

\* what a sound surface reports
GoodFormats == << [ format |-> "B8G8R8A8_SRGB", color_space |-> "SRGB_NONLINEAR" ] >>
GoodModes == << "FIFO" >>

\* a surface of 800 by 600 that fixes its extent, with the given image counts
\* and lists of formats and present modes
Support(min_count, max_count, formats, modes) ==
    [ capabilities |->
          [ min_image_count |-> min_count, max_image_count |-> max_count,
            current_extent |-> Extent2D(WINDOW_WIDTH, WINDOW_HEIGHT),
            min_image_extent |-> Extent2D(WINDOW_WIDTH, WINDOW_HEIGHT),
            max_image_extent |-> Extent2D(WINDOW_WIDTH, WINDOW_HEIGHT) ],
      formats |-> formats, present_modes |-> modes ]

\* a physical device as choose_device selects it: one queue family, which has
\* the GRAPHICS flag and can present, and the swapchain extension
SoundDevice ==
    [ families |-> << [ graphics |-> TRUE, present |-> TRUE ] >>,
      extensions |-> RequiredDeviceExtensions, formats |-> GoodFormats,
      present_modes |-> GoodModes, error |-> "none" ]

\* App is not driven by the main of main.rs
NoMain == main_pc = "none" /\ exit_code = NONE /\ dispatched = << >>

\* the machine the frame loop is explored on: shaders of a valid length, a
\* window of 800 by 600, no device list, and a surface that takes exactly k
\* images, for each k up to MaxImages
FixedInputs ==
    /\ NoMain
    /\ phys_device = SoundDevice
    /\ devices = << >>
    /\ vert = 8 /\ frag = 4
    /\ window = Extent2D(WINDOW_WIDTH, WINDOW_HEIGHT)
    /\ \E k \in 1 .. MaxImages :
           swapchain_support = Support(k, k, GoodFormats, GoodModes)

Init == InitApp(MAX_FRAMES_IN_FLIGHT) /\ FixedInputs

InitN == \E n \in 1 .. MaxN : InitApp(n) /\ FixedInputs

Next ==
    \/ CreateOk
    \/ \E mode \in { "err", "panic" } : CreateFail(mode)
    \/ RenderFrameBegin
    \/ WaitSlotFence
    \/ \E k \in Images : AcquireOk(k)
    \/ \E status \in AcquireFailures : AcquireErr(status)
    \/ WaitImageFence
    \/ RecordImageInFlight
    \/ ResetFences
    \/ QueueSubmit
    \/ QueuePresentOk
    \/ \E status \in AcquireFailures : QueuePresentErr(status)
    \/ \E b \in submissions : GpuComplete(b)
    \/ \E p \in presents : PresentComplete(p)
    \/ RecreateSwapchain
    \/ DestroyBegin
    \/ DeviceWaitIdle
    \/ DestroyStep

\* the program as built, MAX_FRAMES_IN_FLIGHT frames in flight
Spec == Init /\ [][Next]_vars

\* the program built with any number of frames in flight up to MaxN
SpecN == InitN /\ [][Next]_vars

\* the physical devices a scan is tried on: a sound device in each layout of
\* its queue families, and each of them with at most one thing wrong
GoodFamilies == { << [ graphics |-> TRUE, present |-> TRUE ] >>,
                  << [ graphics |-> TRUE, present |-> FALSE ],
                     [ graphics |-> FALSE, present |-> TRUE ] >>,
                  << [ graphics |-> FALSE, present |-> TRUE ],
                     [ graphics |-> TRUE, present |-> FALSE ] >> }
BadFamilies == { << [ graphics |-> TRUE, present |-> FALSE ] >>,
                 << [ graphics |-> FALSE, present |-> TRUE ] >>,
                 << >> }
GoodExtensions == { "VK_KHR_swapchain", "VK_KHR_maintenance1" }

Device(fam, ext, fmts, modes, err) ==
    [ families |-> fam, extensions |-> ext, formats |-> fmts,
      present_modes |-> modes, error |-> err ]

PhysicalDevices ==
    { Device(fam, GoodExtensions, GoodFormats, GoodModes, "none") :
          fam \in GoodFamilies \cup BadFamilies }
    \cup { Device(fam, ext, GoodFormats, GoodModes, "none") :
              fam \in GoodFamilies, ext \in { {}, { "VK_KHR_maintenance1" } } }
    \cup { Device(fam, GoodExtensions, << >>, GoodModes, "none") : fam \in GoodFamilies }
    \cup { Device(fam, GoodExtensions, GoodFormats, << >>, "none") : fam \in GoodFamilies }
    \cup { Device(fam, GoodExtensions, GoodFormats, GoodModes, err) :
              fam \in GoodFamilies,
              err \in { "surface_support", "extensions", "swapchain_support" } }

DeviceLists == UNION { [ 1 .. n -> PhysicalDevices ] : n \in 0 .. MaxDevices }

\* enumerate_physical_devices has returned some list of devices
InitChoose ==
    /\ InitApp(MAX_FRAMES_IN_FLIGHT)
    /\ validation
    /\ NoMain
    /\ phys_device = SoundDevice
    /\ devices \in DeviceLists
    /\ vert = 8 /\ frag = 4
    /\ window = Extent2D(WINDOW_WIDTH, WINDOW_HEIGHT)
    /\ swapchain_support = Support(1, 0, GoodFormats, GoodModes)

\* choose_device runs over the list
ChooseDevice ==
    /\ chosen = NotChosen
    /\ chosen' = choose_device(devices)
    /\ UNCHANGED << BuildVars, MainVars, SurfaceVars, DataVars, pc, cstep, dstep, objs, idle_waited, swapchain_images,
                    FrameVars, devices >>

NextChoose == ChooseDevice

\* choose_device on every list of up to MaxDevices physical devices
SpecChoose == InitChoose /\ [][NextChoose]_vars

\* the extents a surface or a window may have
Extents == { Extent2D(w, h) : w, h \in 1 .. MaxDim }

\* a within [lo, hi] in both dimensions
Within(a, lo, hi) ==
    /\ lo.width <= a.width /\ a.width <= hi.width
    /\ lo.height <= a.height /\ a.height <= hi.height

\* the extents a surface reports: the minimum is at most the maximum, and the
\* current extent is either (u32::MAX, u32::MAX) or lies between the two
\* (VkSurfaceCapabilitiesKHR)
SurfaceExtents ==
    { e \in [ current : Extents \cup { Extent2D(u32_MAX, u32_MAX) },
              min : Extents, max : Extents ] :
          /\ Within(e.min, e.min, e.max)
          /\ e.current.width = u32_MAX \/ Within(e.current, e.min, e.max) }

\* the image counts a surface reports: at least one image, and a maximum that
\* is 0 (none) or at least the minimum
SurfaceImageCounts ==
    { c \in [ min : 1 .. MaxImages, max : 0 .. (MaxImages + 1) ] :
          c.max = 0 \/ c.min <= c.max }

\* the formats a surface may report: the preferred one, one that differs from
\* it in the format and one that differs from it in the colour space
SurfaceFormats ==
    { [ format |-> "B8G8R8A8_SRGB", color_space |-> "SRGB_NONLINEAR" ],
      [ format |-> "R8G8B8A8_UNORM", color_space |-> "SRGB_NONLINEAR" ],
      [ format |-> "B8G8R8A8_SRGB", color_space |-> "EXTENDED_SRGB_LINEAR_EXT" ] }

FormatLists == UNION { [ 1 .. n -> SurfaceFormats ] : n \in 1 .. MaxFormats }

\* the present modes a surface may report
PresentModes == { "IMMEDIATE", "MAILBOX", "FIFO", "FIFO_RELAXED" }

PresentModeLists == UNION { [ 1 .. n -> PresentModes ] : n \in 1 .. MaxModes }

\* the queue families a physical device may have, each with or without the
\* GRAPHICS flag and able or not to present to the surface
QueueFamilyLayouts ==
    UNION { [ 1 .. n -> [ graphics : BOOLEAN, present : BOOLEAN ] ] :
                n \in 1 .. MaxFamilies }

\* the physical devices choose_device may have selected: those it selects
\* when it is given no other
SelectableDevices ==
    { d \in { Device(fam, GoodExtensions, GoodFormats, GoodModes, "none") :
                  fam \in QueueFamilyLayouts } :
          choose_device(<< d >>).status = "Ok" }

\* App::create is given one of: any surface extents and window size; any
\* image counts; any non-empty list of formats; any non-empty list of present
\* modes; shader blobs of any length up to MaxShaderLen; any physical device
\* that choose_device may have selected. What is not varied is as in FixedInputs, on a surface
\* with a minimum of 1 image and no maximum.
InitCreate ==
    /\ InitApp(MAX_FRAMES_IN_FLIGHT)
    /\ validation
    /\ NoMain
    /\ devices = << >>
    /\ \/ /\ vert = 8 /\ frag = 4
          /\ window \in Extents \cup { Extent2D(WINDOW_WIDTH, WINDOW_HEIGHT) }
          /\ \E e \in SurfaceExtents :
                 swapchain_support =
                     [ Support(1, 0, GoodFormats, GoodModes) EXCEPT
                           !.capabilities.current_extent = e.current,
                           !.capabilities.min_image_extent = e.min,
                           !.capabilities.max_image_extent = e.max ]
       \/ /\ vert = 8 /\ frag = 4
          /\ window = Extent2D(WINDOW_WIDTH, WINDOW_HEIGHT)
          /\ \E c \in SurfaceImageCounts :
                 swapchain_support = Support(c.min, c.max, GoodFormats, GoodModes)
       \/ /\ vert = 8 /\ frag = 4
          /\ window = Extent2D(WINDOW_WIDTH, WINDOW_HEIGHT)
          /\ \E formats \in FormatLists :
                 swapchain_support = Support(1, 0, formats, GoodModes)
       \/ /\ vert = 8 /\ frag = 4
          /\ window = Extent2D(WINDOW_WIDTH, WINDOW_HEIGHT)
          /\ \E modes \in PresentModeLists :
                 swapchain_support = Support(1, 0, GoodFormats, modes)
       \/ /\ vert \in 0 .. MaxShaderLen /\ frag \in 0 .. MaxShaderLen
          /\ window = Extent2D(WINDOW_WIDTH, WINDOW_HEIGHT)
          /\ swapchain_support = Support(1, 0, GoodFormats, GoodModes)
    /\ \/ phys_device = SoundDevice
       \/ /\ phys_device \in SelectableDevices
          /\ vert = 8 /\ frag = 4
          /\ window = Extent2D(WINDOW_WIDTH, WINDOW_HEIGHT)
          /\ swapchain_support = Support(1, 0, GoodFormats, GoodModes)

NextCreate ==
    \/ CreateOk
    \/ \E mode \in { "err", "panic" } : CreateFail(mode)

\* App::create on every such input
SpecCreate == InitCreate /\ [][NextCreate]_vars

\* a step in which no call fails and nothing panics
NoFailure ==
    /\ result' \in { "none", "Ok" }
    /\ pc' \notin { "create_err", "panic_create", "panic_index", "panic_acquire",
                    "panic_destroy" }

\* the steps of the single CPU thread in a run without failures: App::create,
\* then calls of render_frame
CpuStep ==
    \/ CreateOk /\ NoFailure
    \/ RenderFrameBegin /\ NoFailure
    \/ WaitSlotFence /\ NoFailure
    \/ \E k \in Images : AcquireOk(k) /\ NoFailure
    \/ WaitImageFence /\ NoFailure
    \/ RecordImageInFlight /\ NoFailure
    \/ ResetFences /\ NoFailure
    \/ QueueSubmit /\ NoFailure
    \/ QueuePresentOk /\ NoFailure

\* the graphics queue executes a batch
GpuStep == \E b \in submissions : GpuComplete(b)

\* the presentation engine executes a present request
PresentStep == \E p \in presents : PresentComplete(p)

NextLive == CpuStep \/ GpuStep \/ PresentStep

\* The failure-free runs of the frame loop, with any number of frames in
\* flight up to MaxN: the thread goes on whenever the call it is in can
\* return (a wait whose fence is signalled, an acquisition for which the
\* presentation engine has an image), the graphics queue completes every
\* batch whose wait semaphore is signalled, and the presentation engine
\* executes every present request whose wait semaphore is signalled.
SpecLive ==
    /\ InitN
    /\ [][NextLive]_vars
    /\ WF_vars(CpuStep)
    /\ WF_vars(GpuStep)
    /\ WF_vars(PresentStep)

\* ------------------------------------------------------- main of main.rs

\* what main does before the event loop runs, in order, and how each stage
\* fails: "panic" is an unwrap or expect on the failure, "err" a failure that
\* `?` returns to main, whose expect then panics
InitStages ==
    << [ stage |-> "EventLoop::new", fails |-> { "panic" }, validation_only |-> FALSE ],
       [ stage |-> "init_window", fails |-> { "panic" }, validation_only |-> FALSE ],
       [ stage |-> "display_handle", fails |-> { "panic" }, validation_only |-> FALSE ],
       [ stage |-> "enumerate_required_extensions", fails |-> { "err" },
         validation_only |-> FALSE ],
       [ stage |-> "create_instance", fails |-> { "panic" }, validation_only |-> FALSE ],
       [ stage |-> "create_debug_utils_messenger", fails |-> { "panic" },
         validation_only |-> TRUE ] >>

InitStageNames == { InitStages[i].stage : i \in 1 .. Len(InitStages) }

\* the index of the stage main stands at
StageIndex == CHOOSE i \in 1 .. Len(InitStages) : InitStages[i].stage = main_pc

\* the exit code of a process whose main thread panics: 101 when the panic
\* unwinds, 134 (SIGABRT) when the build aborts on panic
PanicExitCodes == { 101, 134 }

\* the events the loop may be handed: a close request, Escape pressed or
\* released, another named key pressed, a character key pressed, anything else
Events ==
    { [ event |-> "CloseRequested", key |-> "none", state |-> "none" ],
      [ event |-> "KeyboardInput", key |-> "Escape", state |-> "Pressed" ],
      [ event |-> "KeyboardInput", key |-> "Escape", state |-> "Released" ],
      [ event |-> "KeyboardInput", key |-> "Enter", state |-> "Pressed" ],
      [ event |-> "KeyboardInput", key |-> "Character", state |-> "Pressed" ],
      [ event |-> "RedrawRequested", key |-> "none", state |-> "none" ] }

\* the match of lines 143-171: the events on which the closure calls elwt.exit()
CallsExit(e) ==
    \/ e.event = "CloseRequested"
    \/ e.event = "KeyboardInput" /\ e.key = "Escape" /\ e.state = "Pressed"

\* the main thread panics: the process ends where it stands
MainPanics ==
    /\ \E code \in PanicExitCodes : exit_code' = code
    /\ UNCHANGED << main_pc, dispatched >>

\* one stage of main's initialization succeeds (or is not made in this
\* build), after the last one main_loop runs
InitStageOk ==
    /\ exit_code = NONE
    /\ main_pc \in InitStageNames
    /\ main_pc' = IF StageIndex = Len(InitStages)
                      \/ (InitStages[StageIndex + 1].validation_only /\ ~validation)
                  THEN "main_loop" ELSE InitStages[StageIndex + 1].stage
    /\ UNCHANGED << BuildVars, SurfaceVars, DataVars, pc, cstep, dstep, objs, idle_waited,
                    swapchain_images, FrameVars, ChooseVars, exit_code, dispatched >>

\* one stage of main's initialization fails: either way the main thread panics
InitStageFail(mode) ==
    /\ exit_code = NONE
    /\ main_pc \in InitStageNames
    /\ mode \in InitStages[StageIndex].fails
    /\ MainPanics
    /\ UNCHANGED << BuildVars, SurfaceVars, DataVars, pc, cstep, dstep, objs, idle_waited,
                    swapchain_images, FrameVars, ChooseVars >>

\* lines 142-171: the loop hands an event to the closure, which asks the loop
\* to exit on a close request or on Escape pressed and ignores anything else
Dispatch(e) ==
    /\ exit_code = NONE
    /\ main_pc = "main_loop"
    /\ Len(dispatched) < MaxEvents
    /\ dispatched' = Append(dispatched, e)
    /\ main_pc' = IF CallsExit(e) THEN "exiting" ELSE "main_loop"
    /\ UNCHANGED << BuildVars, SurfaceVars, DataVars, pc, cstep, dstep, objs, idle_waited,
                    swapchain_images, FrameVars, ChooseVars, exit_code >>

\* lines 142, 211: event_loop.run returns Ok once the loop was asked to exit,
\* and main returns
MainLoopReturns ==
    /\ exit_code = NONE
    /\ main_pc = "exiting"
    /\ main_pc' = "returned"
    /\ exit_code' = 0
    /\ UNCHANGED << BuildVars, SurfaceVars, DataVars, pc, cstep, dstep, objs, idle_waited,
                    swapchain_images, FrameVars, ChooseVars, dispatched >>

\* lines 142, 211: event_loop.run returns an EventLoopError, which main's
\* expect turns into a panic
MainLoopFails ==
    /\ exit_code = NONE
    /\ main_pc \in { "main_loop", "exiting" }
    /\ MainPanics
    /\ UNCHANGED << BuildVars, SurfaceVars, DataVars, pc, cstep, dstep, objs, idle_waited,
                    swapchain_images, FrameVars, ChooseVars >>

\* main is entered
InitMain ==
    /\ InitApp(MAX_FRAMES_IN_FLIGHT)
    /\ devices = << >>
    /\ vert = 8 /\ frag = 4
    /\ window = Extent2D(WINDOW_WIDTH, WINDOW_HEIGHT)
    /\ swapchain_support = Support(1, 0, GoodFormats, GoodModes)
    /\ phys_device = SoundDevice
    /\ main_pc = InitStages[1].stage
    /\ exit_code = NONE
    /\ dispatched = << >>

NextMain ==
    \/ InitStageOk
    \/ \E mode \in { "err", "panic" } : InitStageFail(mode)
    \/ \E e \in Events : Dispatch(e)
    \/ MainLoopReturns
    \/ MainLoopFails

\* the process of main.rs, from its start to its exit
SpecMain == InitMain /\ [][NextMain]_vars

\* ------------------------------------------------------------- the claims

\* render_frame is between its first fence wait and its return
InFrame == pc \in { "wait_slot", "acquire", "wait_image", "record", "reset",
                    "submit", "present" }

\* C1: with MAX_FRAMES_IN_FLIGHT = N, the (N+1)-th of N+1 calls of render_frame
\* that all succeed so far uses frame slot 0, and from the return of its wait
\* on in_flight_fences[0] until it has reset that fence and submitted, no batch
\* of an earlier call on slot 0 is still pending and, until the reset, the
\* fence is signalled.
C1_SlotZeroReusedAfterWait ==
    (calls = N + 1 /\ oks = N) =>
        /\ pc # "panic_index"
        /\ InFrame => frame = 0
        /\ pc \in { "acquire", "wait_image", "record", "reset", "submit" } =>
               \A b \in submissions : b.slot # 0
        /\ pc \in { "acquire", "wait_image", "record", "reset" } => in_flight_fences[0]

\* the (N+1)-th call, after N successful ones, is about to submit on slot 0
C1_Witness == calls = N + 1 /\ oks = N /\ pc = "submit" /\ frame = 0

\* C2: whenever render_frame is about to reset in_flight_fences[frame] or to
\* submit a batch that uses the semaphores of slot frame, no batch submitted
\* earlier with that slot is still pending on the GPU, and the fence it is
\* about to reset is signalled.
C2_NoSlotReuseWhileInFlight ==
    /\ pc \in { "reset", "submit" } => \A b \in submissions : b.slot # frame
    /\ pc = "reset" => in_flight_fences[frame]

\* a slot that an earlier successful frame used is about to be submitted on again
C2_Witness == pc = "submit" /\ oks >= 1 /\ frame = 0

C4_FrameInRange == frame \in Slots

\* C5: every successful render_frame sets frame to (frame + 1) mod N.
C5_AdvanceIsModulo == [][oks' # oks => frame' = (frame + 1) % N]_vars

\* C6: every out-of-date report of the swapchain is returned to the caller as
\* an error value, never a process abort, and triggers exactly one swapchain
\* recreation: the recreations number the out-of-date reports, less the one
\* whose result the caller holds and is about to handle.
C6_OutOfDateRecreatesOnce ==
    /\ recreates = out_of_date - (IF result = "ERROR_OUT_OF_DATE_KHR" THEN 1 ELSE 0)
    /\ acquire_status = "ERROR_OUT_OF_DATE_KHR" =>
           /\ result \in { "ERROR_OUT_OF_DATE_KHR", "Recreated" }
           /\ pc \notin { "panic_acquire", "panic_index", "panic_create" }

\* the third call's acquisition reported out of date and the swapchain was
\* recreated once
C6_Witness ==
    /\ calls = 3 /\ oks = 2
    /\ acquire_status = "ERROR_OUT_OF_DATE_KHR"
    /\ result = "Recreated" /\ recreates = 1 /\ pc = "idle"

\* a step of render_frame from its call up to and including a failing
\* acquisition
UpToFailedAcquire ==
    \/ pc = "idle" /\ calls' # calls
    \/ pc = "wait_slot" /\ pc' = "acquire"
    \/ pc = "acquire" /\ pc' \notin { "acquire", "wait_image" }

\* C7: a render_frame whose acquisition fails returns to the caller having
\* changed nothing: frame, images_in_flight, the fences, the semaphores, the
\* images, the queued batches and the present requests are as they were, and
\* the slot's fence is still signalled when the error is returned.
C7_FailedAcquireNoSideEffects ==
    [][UpToFailedAcquire =>
          /\ UNCHANGED << frame, images_in_flight, in_flight_fences,
                          image_available_semaphores, render_finished_semaphores,
                          image_state, submissions, presents, oks >>
          /\ pc = "acquire" => pc' = "idle" /\ in_flight_fences'[frame'] ]_vars

\* a failing acquisition has returned after an earlier frame was submitted
C7_Witness ==
    /\ pc = "idle" /\ acquire_status \in AcquireFailures
    /\ result = acquire_status /\ oks >= 1

\* the position of each kind in the teardown order the claim gives
ClaimedRank(k) ==
    CASE k \in { "in_flight_fences", "render_finished_semaphores",
                 "image_available_semaphores" } -> 1
      [] k \in { "command_pool", "command_buffers" } -> 2
      [] k = "framebuffers" -> 3
      [] k = "pipeline" -> 4
      [] k = "pipeline_layout" -> 5
      [] k = "render_pass" -> 6
      [] k = "swapchain_image_views" -> 7
      [] k = "swapchain" -> 8
      [] k = "device" -> 9
      [] k = "surface" -> 10
      [] k = "debug_call_back" -> 11
      [] k = "instance" -> 12
      [] OTHER -> 0

\* the kinds App::destroy is to release
Torn == { k \in Kinds : ClaimedRank(k) > 0 }

\* C8: App::destroy releases nothing before device_wait_idle has returned;
\* then it releases the kinds in the claimed order (a kind is destroyed only
\* when every kind before it in that order is no longer alive); and no object
\* is destroyed while an object created from it is alive.
C8_TeardownOrder ==
    /\ ~idle_waited => \A k \in Torn : objs[k] # "destroyed"
    /\ \A k1, k2 \in Torn :
           (ClaimedRank(k1) < ClaimedRank(k2) /\ objs[k2] = "destroyed") => ~Alive(k1)
    /\ \A k \in Kinds : Alive(k) => \A parent \in CreatedFrom(k) : Alive(parent)
    /\ pc = "destroyed" => \A k \in Kinds : ~Alive(k)

\* App::destroy has run to its end in a build with the debug callback installed
C8_Witness ==
    /\ pc = "destroyed" /\ validation /\ oks >= 1
    /\ \A k \in Torn : objs[k] = "destroyed"

\* C9: once App::create has failed, or App::destroy has returned, no object
\* that was created is still alive.
C9_NothingLeaked ==
    pc \in { "create_err", "panic_create", "destroyed" } => \A k \in Kinds : ~Alive(k)

\* the three checks of the claim: a graphics family and a present family
\* exist, every required extension is supported, formats and present modes
\* are both non-empty
Eligible(d) ==
    /\ \E i \in 1 .. Len(d.families) : d.families[i].graphics
    /\ \E i \in 1 .. Len(d.families) : d.families[i].present
    /\ RequiredDeviceExtensions \subseteq d.extensions
    /\ d.formats # << >>
    /\ d.present_modes # << >>

\* C10: when no query of the scan fails, choose_device selects the first
\* device of the enumeration that passes all three checks, and returns an
\* error only when no device passes them.
C10_FirstEligibleSelected ==
    (chosen # NotChosen /\ \A i \in 1 .. Len(devices) : devices[i].error = "none") =>
        LET eligible == { i \in 1 .. Len(devices) : Eligible(devices[i]) }
        IN  IF eligible = {}
            THEN chosen.status = "Err"
            ELSE /\ chosen.status = "Ok"
                 /\ chosen.device \in eligible
                 /\ \A j \in eligible : chosen.device <= j

\* C11: choose_device never selects a device without a queue family that has
\* the GRAPHICS flag or without one that can present to the surface, and the
\* indices resolved for the selected device designate a family with the
\* GRAPHICS flag and a family that supports the surface.
C11_SelectedHasQueueFamilies ==
    chosen.status = "Ok" =>
        LET d == devices[chosen.device]
            q == queue_family_indices(devices, chosen.device)
        IN  /\ \E i \in 1 .. Len(d.families) : d.families[i].graphics
            /\ \E i \in 1 .. Len(d.families) : d.families[i].present
            /\ q.ok
            /\ q.graphics + 1 \in 1 .. Len(d.families)
            /\ q.present + 1 \in 1 .. Len(d.families)
            /\ d.families[q.graphics + 1].graphics
            /\ d.families[q.present + 1].present

\* a device whose only family cannot present was passed over and the next
\* one, whose graphics and present families differ, was selected
C11_Witness ==
    /\ chosen.status = "Ok" /\ chosen.device = 2
    /\ devices[1].families = << [ graphics |-> TRUE, present |-> FALSE ] >>
    /\ queue_family_indices(devices, 2).graphics # queue_family_indices(devices, 2).present

\* C12: choose_device never selects a device that lacks a required device
\* extension or whose surface formats or present modes are empty; on success
\* data.swapchain_support is that of the selected device, with formats and
\* present modes both non-empty.
C12_SelectedHasExtensionsAndSupport ==
    chosen.status = "Ok" =>
        LET d == devices[chosen.device]
        IN  /\ RequiredDeviceExtensions \subseteq d.extensions
            /\ d.formats # << >>
            /\ d.present_modes # << >>
            /\ chosen.support = chosen.device
            /\ devices[chosen.support].formats # << >>
            /\ devices[chosen.support].present_modes # << >>

\* the scan met a device with adequate queue families and no swapchain
\* extension, and did not select it
C12_Witness ==
    /\ chosen # NotChosen
    /\ Len(devices) = 2
    /\ ~QueueFamilyIndicesGet(devices[1]).ok
    /\ QueueFamilyIndicesGet(devices[2]).ok
    /\ devices[2].error = "none"
    /\ ~(RequiredDeviceExtensions \subseteq devices[2].extensions)
    /\ chosen.status = "Err"

\* the position of a call in App::create
StepOf(call) == CHOOSE i \in 1 .. Len(CreateCalls) : CreateCalls[i].call = call

\* App::create has got past the call, which succeeded
Passed(call) ==
    \/ cstep > StepOf(call)
    \/ cstep = StepOf(call) /\ pc \notin { "create", "create_err", "panic_create" }

\* C13: once create_swapchain and create_swapchain_image_views have both
\* succeeded there are as many image views as swapchain images, and view i is
\* the view of image i.
C13_OneViewPerImage ==
    Passed("create_swapchain_image_views") =>
        /\ DOMAIN swapchain_image_views = Images
        /\ Cardinality(DOMAIN swapchain_image_views) = swapchain_images
        /\ \A i \in Images : swapchain_image_views[i].image = i

\* the views of a swapchain of three images have been created
C13_Witness ==
    /\ Passed("create_swapchain_image_views")
    /\ swapchain_images = 3
    /\ Alive("swapchain_image_views")

\* C14: once create_swapchain has succeeded on a surface that does not report
\* the u32::MAX sentinel as its current extent, the extent chosen lies within
\* [min_image_extent, max_image_extent] in width and in height, whatever the
\* window's size.
C14_ExtentWithinBounds ==
    LET c == swapchain_support.capabilities
    IN  (Passed("create_swapchain") /\ c.current_extent.width # u32_MAX) =>
            /\ c.min_image_extent.width <= swapchain_create_info.image_extent.width
            /\ swapchain_create_info.image_extent.width <= c.max_image_extent.width
            /\ c.min_image_extent.height <= swapchain_create_info.image_extent.height
            /\ swapchain_create_info.image_extent.height <= c.max_image_extent.height

\* a swapchain was created on a surface of a fixed extent smaller than its
\* maximum while the window's size is outside the surface's bounds
C14_Witness ==
    LET c == swapchain_support.capabilities
    IN  /\ Passed("create_swapchain")
        /\ c.current_extent.width # u32_MAX
        /\ c.current_extent # c.max_image_extent
        /\ ~Within(window, c.min_image_extent, c.max_image_extent)

\* min_image_count + 1, capped at a nonzero max_image_count
ClaimedImageCount(capabilities) ==
    IF capabilities.max_image_count = 0
    THEN capabilities.min_image_count + 1
    ELSE IF capabilities.min_image_count + 1 <= capabilities.max_image_count
    THEN capabilities.min_image_count + 1
    ELSE capabilities.max_image_count

\* the surface of the end-to-end scenario: at least 1 image, no maximum, a
\* current extent of 800 by 600, under a window of 800 by 600
Scenario ==
    /\ swapchain_support.capabilities.min_image_count = 1
    /\ swapchain_support.capabilities.max_image_count = 0
    /\ swapchain_support.capabilities.current_extent = Extent2D(800, 600)
    /\ window = Extent2D(800, 600)

\* C15 as stated: the swapchain's image count is min_image_count + 1, capped
\* at a nonzero max_image_count, and in the scenario startup produces a
\* swapchain of exactly 2 images with extent (800, 600).
C15_ExactImageCount ==
    /\ Passed("create_swapchain") =>
           swapchain_create_info.min_image_count =
               ClaimedImageCount(swapchain_support.capabilities)
    /\ (Passed("get_swapchain_images") /\ Scenario) =>
           /\ swapchain_images = 2
           /\ swapchain_create_info.image_extent = Extent2D(800, 600)

\* C15 as amended: the image count asked of the driver is min_image_count + 1,
\* capped at a nonzero max_image_count; the swapchain has at least that many
\* images; in the scenario startup asks for exactly 2 images and produces a
\* swapchain of at least 2 images with extent (800, 600).
C15_ImageCountAskedFor ==
    /\ Passed("create_swapchain") =>
           swapchain_create_info.min_image_count =
               ClaimedImageCount(swapchain_support.capabilities)
    /\ Passed("get_swapchain_images") =>
           swapchain_images >= ClaimedImageCount(swapchain_support.capabilities)
    /\ (Passed("get_swapchain_images") /\ Scenario) =>
           /\ swapchain_create_info.min_image_count = 2
           /\ swapchain_images >= 2
           /\ swapchain_create_info.image_extent = Extent2D(800, 600)

\* startup has succeeded in the scenario
C15_Witness == Scenario /\ pc = "idle" /\ swapchain_create_info.min_image_count = 2

\* the format and colour space the swapchain was created with
SelectedFormat ==
    [ format |-> swapchain_create_info.image_format,
      color_space |-> swapchain_create_info.image_color_space ]

\* C16: for every non-empty list of reported formats the swapchain's format is
\* the (B8G8R8A8_SRGB, SRGB_NONLINEAR) entry when the list has one and the
\* list's first entry otherwise, and selecting again from the same list gives
\* the format selected before.
C16_FormatSelection ==
    LET formats == swapchain_support.formats
        preferred == [ format |-> "B8G8R8A8_SRGB", color_space |-> "SRGB_NONLINEAR" ]
    IN  Passed("create_swapchain") =>
            /\ IF \E i \in 1 .. Len(formats) : formats[i] = preferred
               THEN SelectedFormat = preferred
               ELSE SelectedFormat = formats[1]
            /\ get_surface_format(swapchain_support) = SelectedFormat

\* the list has no preferred entry, and an entry that is not its first has
\* the preferred format in another colour space
C16_Witness ==
    LET formats == swapchain_support.formats
    IN  /\ Passed("create_swapchain")
        /\ Len(formats) = 3
        /\ formats[1].format = "R8G8B8A8_UNORM"
        /\ formats[2].color_space = "EXTENDED_SRGB_LINEAR_EXT"
        /\ formats[3] = formats[1]

\* the operations of a recorded command buffer, in order
OpsOf(buffer) == [ j \in 1 .. Len(buffer) |-> buffer[j].op ]

\* the command buffer of image k holds exactly the claimed commands
RecordedAsClaimed(k) ==
    LET buffer == command_buffers[k]
    IN  /\ OpsOf(buffer) = << "begin_command_buffer", "cmd_begin_render_pass",
                              "cmd_bind_pipeline", "cmd_draw",
                              "cmd_end_render_pass", "end_command_buffer" >>
        /\ buffer[2].args[1] = k
        /\ buffer[2].args[2] = << 0, 0, 0, 1 >>
        /\ buffer[4].args[1] = 3 /\ buffer[4].args[2] = 1
        /\ \A other \in Images, j \in { 1, 3, 4, 5, 6 } :
               command_buffers[other][j] = buffer[j]

\* C17: once create_command_buffers has succeeded there is one command buffer
\* per swapchain image k, holding exactly: begin, one render pass begun on
\* framebuffer k with clear colour (0, 0, 0, 1), the pipeline bound, one draw
\* of 3 vertices and 1 instance, the render pass ended, end; nothing but the
\* framebuffer depends on k; and the buffers change only while App::create
\* records them, from empty, never in render_frame.
C17_CommandBuffersFixed ==
    /\ [](Passed("create_command_buffers") =>
              /\ DOMAIN command_buffers = Images
              /\ \A k \in Images : RecordedAsClaimed(k))
    /\ [][command_buffers' # command_buffers =>
              /\ pc = "create" /\ CreateCalls[cstep].call = "create_command_buffers"
              /\ command_buffers = << >>]_vars

\* two frames were rendered with the buffers of a swapchain of two images
C17_Witness ==
    /\ pc = "idle" /\ oks = 2 /\ swapchain_images = 2
    /\ \A k \in Images : Len(command_buffers[k]) = 6

\* a blob length the claim has accepted: not zero and a multiple of 4
ValidLength(len) == len > 0 /\ len % 4 = 0

\* the objects the pipeline build creates on the device
PipelineObjects == { "vert_shader_module", "frag_shader_module",
                     "pipeline_layout", "pipeline" }

\* C18: a shader blob whose length is zero or not a multiple of 4 is never
\* accepted, and when create_pipeline fails on such a blob, the vertex or the
\* fragment one, no shader module and no other object of the pipeline build
\* has been created.
C18_InvalidBytecodeBeforeDeviceCalls ==
    /\ Passed("create_shader_module_vert") => ValidLength(vert)
    /\ Passed("create_shader_module_frag") => ValidLength(frag)
    /\ (/\ pc = "create_err"
        /\ \/ /\ CreateCalls[cstep].call = "create_shader_module_vert"
              /\ ~ValidLength(vert)
           \/ /\ CreateCalls[cstep].call = "create_shader_module_frag"
              /\ ~ValidLength(frag))
       => \A k \in PipelineObjects : objs[k] = "none"

\* C19: when instance creation is rejected, App::create returns an error to
\* its caller: the process is not aborted, and nothing after the instance is
\* created.
C19_InstanceFailureReturned ==
    (pc # "create" /\ CreateCalls[cstep].call = "create_instance") =>
        /\ pc = "create_err"
        /\ \A k \in Kinds : objs[k] = "none"

\* the calls the claim names: swapchain, image-view and pipeline creation
NamedStages == { "create_swapchain", "create_swapchain_image_views",
                 "create_graphics_pipelines" }

\* C20: no stage of App::create or render_frame terminates the process: a
\* failure leaves App::create with Err returned, in particular a failure of
\* swapchain, image-view or graphics-pipeline creation, and leaves
\* render_frame back at its caller with the error as its result.
C20_FailuresReturned ==
    /\ pc \notin { "panic_create", "panic_index", "panic_acquire" }
    /\ (pc # "create" /\ CreateCalls[cstep].call \in NamedStages) =>
           pc = "create_err"

\* the process ended because a stage before the event loop failed
InitializationFailed == exit_code # NONE /\ main_pc \in InitStageNames

\* the process ended after the event loop was asked to exit and returned Ok
CleanShutdown == main_pc = "returned"

\* C21: the exit code of the process is 0 on a clean shutdown (a close request
\* or Escape pressed having ended the event loop) and 1 when a stage of the
\* initialization has failed before the loop started.
C21_ExitCodes ==
    /\ CleanShutdown => exit_code = 0
    /\ InitializationFailed => exit_code = 1

\* the order in which render_frame goes through its steps; any of them may
\* return instead
FrameOrder ==
    { << "wait_slot", "acquire" >>, << "acquire", "wait_image" >>,
      << "wait_image", "record" >>, << "record", "reset" >>,
      << "reset", "submit" >>, << "submit", "present" >> }

\* C22: a render_frame that reaches its submit has gone through: wait on
\* in_flight_fences[frame]; acquire with image_available_semaphores[frame];
\* wait on the fence recorded for the image, if any; record the slot's fence
\* for the image; reset in_flight_fences[frame]; submit the image's batch,
\* which waits on image_available_semaphores[frame] at the colour attachment
\* output stage and signals render_finished_semaphores[frame] and
\* in_flight_fences[frame]; present the same image, waiting on
\* render_finished_semaphores[frame]. The slot's fence is reset only after
\* both waits and before the submit, and nothing is presented before its
\* submit.
C22_FrameOrder ==
    [][ /\ (InFrame /\ pc' # pc) => (pc' = "idle" \/ << pc, pc' >> \in FrameOrder)
        /\ << pc, pc' >> = << "wait_slot", "acquire" >> => in_flight_fences[frame]
        /\ << pc, pc' >> = << "acquire", "wait_image" >> =>
               /\ image_available_semaphores' =
                      [ image_available_semaphores EXCEPT ![frame] = @ + 1 ]
               /\ image_state[image_index'] = "Idle"
        /\ << pc, pc' >> = << "wait_image", "record" >> =>
               \/ images_in_flight[image_index] = NULL
               \/ in_flight_fences[images_in_flight[image_index]]
        /\ << pc, pc' >> = << "record", "reset" >> =>
               images_in_flight' = [ images_in_flight EXCEPT ![image_index] = frame ]
        /\ << pc, pc' >> = << "reset", "submit" >> =>
               in_flight_fences' = [ in_flight_fences EXCEPT ![frame] = FALSE ]
        /\ \A s \in DOMAIN in_flight_fences :
               (in_flight_fences[s] /\ pc # "create" /\ ~in_flight_fences'[s]) =>
                   << pc, pc' >> = << "reset", "submit" >> /\ s = frame
        /\ submissions' \ submissions # {} =>
               /\ << pc, pc' >> = << "submit", "present" >>
               /\ submissions' \ submissions =
                      { [ slot |-> frame, image |-> image_index, call |-> calls,
                          wait_dst_stage_mask |-> "COLOR_ATTACHMENT_OUTPUT" ] }
               /\ image_state[image_index] = "Acquired"
               /\ images_in_flight[image_index] = frame
               /\ ~in_flight_fences[frame]
        /\ \A b \in submissions \ submissions' :
               /\ image_available_semaphores[b.slot] > 0
               /\ image_available_semaphores' =
                      [ image_available_semaphores EXCEPT ![b.slot] = @ - 1 ]
               /\ render_finished_semaphores' =
                      [ render_finished_semaphores EXCEPT ![b.slot] = @ + 1 ]
               /\ in_flight_fences'[b.slot]
        /\ presents' \ presents # {} =>
               /\ pc = "present" /\ pc' = "idle"
               /\ presents' \ presents =
                      { [ slot |-> frame, image |-> image_index, call |-> calls ] }
               /\ image_state[image_index] = "Submitted"
        /\ \A p \in presents \ presents' :
               /\ render_finished_semaphores[p.slot] > 0
               /\ render_finished_semaphores' =
                      [ render_finished_semaphores EXCEPT ![p.slot] = @ - 1 ]
      ]_vars

\* a second frame has been submitted, after a first one was presented
C22_Witness == pc = "present" /\ oks >= 1

\* the life of a swapchain image
ImageCycle ==
    { << "Idle", "Acquired" >>, << "Acquired", "Submitted" >>,
      << "Submitted", "Presented" >>, << "Presented", "Idle" >> }

\* C23: as long as the swapchain is not replaced, an image changes state only
\* along Idle, Acquired, Submitted, Presented, Idle: it is acquired only by the
\* acquisition of render_frame, which makes it the call's image; it is
\* submitted only by the submit of the call that has just acquired it, and
\* presented only by the present of the call that has just submitted it.
C23_ImageCycle ==
    [][ recreates' = recreates =>
          \A k \in DOMAIN image_state \cap DOMAIN image_state' :
              image_state'[k] # image_state[k] =>
                  /\ << image_state[k], image_state'[k] >> \in ImageCycle
                  /\ image_state'[k] = "Acquired" =>
                         pc = "acquire" /\ image_index' = k
                  /\ image_state'[k] = "Submitted" =>
                         /\ pc = "submit" /\ image_index = k
                         /\ \E b \in submissions' \ submissions :
                                b.image = k /\ b.call = calls
                  /\ image_state'[k] = "Presented" =>
                         /\ pc = "present" /\ image_index = k
                         /\ \E p \in presents' \ presents :
                                p.image = k /\ p.call = calls
                  /\ image_state'[k] = "Idle" =>
                         \E p \in presents \ presents' : p.image = k
      ]_vars

\* the second image has gone round the cycle while the first one, acquired by
\* a call that failed before its submit, stays acquired
C23_Witness ==
    /\ swapchain_images = 2
    /\ image_state[0] = "Acquired" /\ image_state[1] = "Idle"
    /\ pc = "idle" /\ oks >= 1 /\ presents = {}

\* C24: frame changes only in the return of a render_frame call that has
\* submitted its batch, and every such call advances it by one slot, whether
\* or not its present succeeds; a call that submits nothing leaves it alone.
C24_AdvanceOncePerSubmit ==
    [][ /\ (pc = "present" /\ pc' = "idle") => frame' = (frame + 1) % N
        /\ frame' # frame => (pc = "present" /\ pc' = "idle")
      ]_vars

\* a step of render_frame itself: its entry, or one of its calls returning
RenderFrameStep == (pc = "idle" /\ calls' # calls) \/ (InFrame /\ pc' # pc)

ErrorReturned == pc = "idle" /\ result \notin { "none", "Ok", "Recreated" }

\* the fence of slot s is signalled, or a queued batch will signal it
WillBeSignalled(s) == in_flight_fences[s] \/ \E b \in submissions : b.slot = s

\* C26: when render_frame has returned an error, whichever of its steps
\* failed, in_flight_fences[frame] is signalled or a queued batch will signal
\* it, and so is every fence that images_in_flight records for an image: the
\* next render_frame does not wait for ever.
C26_FencesRecoverableAfterError ==
    ErrorReturned =>
        /\ WillBeSignalled(frame)
        /\ \A k \in DOMAIN images_in_flight :
               images_in_flight[k] # NULL => WillBeSignalled(images_in_flight[k])

\* C27: in a run without failures, in which the graphics queue completes
\* every batch and the presentation engine hands out and takes back images,
\* every render_frame call returns: each fence it waits on is signalled or
\* will be signalled by a queued batch, on the first use of a slot (the fence
\* is created signalled) as well as when the fence recorded for the image is
\* the fence of the call's own slot.
C27_EveryCallReturns == InFrame ~> (pc = "idle")

\* the call has passed both waits, the second one on the fence of its own
\* slot, recorded for the image by an earlier call
C27_Witness ==
    /\ pc = "record" /\ oks >= 1
    /\ images_in_flight[image_index] = frame

\* the queued batches, and the queued present requests, of slot s
BatchesOf(s) == { b \in submissions : b.slot = s }
PresentsOf(s) == { p \in presents : p.slot = s }

\* C28: the semaphores are used as binary semaphores in every interleaving of
\* the CPU thread, the graphics queue and the presentation engine:
\* image_available_semaphores[frame] is handed to an acquisition only when it
\* is unsignalled; a submit that will signal render_finished_semaphores[frame]
\* is queued only when the present request that waits on its previous signal
\* has consumed it; no semaphore is signalled twice without a wait between,
\* and every queued wait has its one signal, delivered or to come.
C28_BinarySemaphores ==
    /\ pc = "acquire" => image_available_semaphores[frame] = 0
    /\ pc = "submit" =>
           render_finished_semaphores[frame] = 0 /\ PresentsOf(frame) = {}
    /\ \A s \in DOMAIN image_available_semaphores :
           /\ image_available_semaphores[s] <= 1
           /\ render_finished_semaphores[s] <= 1
           /\ Cardinality(BatchesOf(s)) <= image_available_semaphores[s]
           /\ Cardinality(PresentsOf(s)) <=
                  render_finished_semaphores[s] + Cardinality(BatchesOf(s))

\* r is v brought into [lo, hi]
ClampedTo(r, v, lo, hi) ==
    /\ lo <= r /\ r <= hi
    /\ (lo <= v /\ v <= hi) => r = v
    /\ v < lo => r = lo
    /\ v > hi => r = hi

\* C29: once create_swapchain has succeeded, the swapchain's extent is, on a
\* surface that reports the u32::MAX sentinel, the window's size with its
\* width brought into [min_image_extent.width, max_image_extent.width] and
\* its height into [min_image_extent.height, max_image_extent.height], and
\* on any other surface the current extent that surface reports.
C29_ExtentSelection ==
    LET c == swapchain_support.capabilities
        e == swapchain_create_info.image_extent
    IN  Passed("create_swapchain") =>
            IF c.current_extent = Extent2D(u32_MAX, u32_MAX)
            THEN /\ ClampedTo(e.width, window.width, c.min_image_extent.width,
                              c.max_image_extent.width)
                 /\ ClampedTo(e.height, window.height, c.min_image_extent.height,
                              c.max_image_extent.height)
            ELSE e = c.current_extent

\* a swapchain was created on a surface that reports the sentinel, for a
\* window narrower than the surface's minimum and taller than its maximum
C29_Witness ==
    LET c == swapchain_support.capabilities
    IN  /\ Passed("create_swapchain")
        /\ c.current_extent = Extent2D(u32_MAX, u32_MAX)
        /\ window.width < c.min_image_extent.width
        /\ window.height > c.max_image_extent.height

\* mode is among the present modes the surface reports
Reported(mode) ==
    \E i \in 1 .. Len(swapchain_support.present_modes) :
        swapchain_support.present_modes[i] = mode

\* C30: once create_swapchain has succeeded, the swapchain's present mode is
\* MAILBOX when the surface reports MAILBOX and FIFO when it does not, for
\* every non-empty list of reported modes, those without FIFO included.
C30_PresentModeSelection ==
    Passed("create_swapchain") =>
        swapchain_create_info.present_mode =
            IF Reported("MAILBOX") THEN "MAILBOX" ELSE "FIFO"

\* a swapchain was created on a surface that reports neither MAILBOX nor FIFO
C30_Witness ==
    /\ Passed("create_swapchain")
    /\ ~Reported("MAILBOX") /\ ~Reported("FIFO")
    /\ swapchain_create_info.present_mode = "FIFO"

\* the elements of a sequence
Range(seq) == { seq[k] : k \in 1 .. Len(seq) }

\* C31: the logical device is created with one queue request per distinct
\* index among the graphics and the present family of
\* data.queue_family_indices (one when they are equal, two when they differ),
\* each for one queue, and the swapchain is created CONCURRENT with exactly
\* those two indices listed when they differ, and EXCLUSIVE with no index
\* listed when they are equal.
C31_QueueFamiliesConsistent ==
    LET graphics == data_queue_family_indices.graphics
        present == data_queue_family_indices.present
        infos == device_create_info.queue_create_infos
        listed == swapchain_create_info.queue_family_indices
    IN  /\ Passed("create_logical_device") =>
               /\ Len(infos) = Cardinality({ graphics, present })
               /\ { infos[k].queue_family_index : k \in 1 .. Len(infos) } =
                      { graphics, present }
               /\ \A k \in 1 .. Len(infos) : Len(infos[k].queue_priorities) = 1
        /\ Passed("create_swapchain") =>
               IF graphics # present
               THEN /\ swapchain_create_info.image_sharing_mode = "CONCURRENT"
                    /\ Len(listed) = 2
                    /\ Range(listed) = { graphics, present }
               ELSE /\ swapchain_create_info.image_sharing_mode = "EXCLUSIVE"
                    /\ listed = << >>

\* a swapchain was created on a device whose first family that can present
\* comes before its first family with the GRAPHICS flag
C31_Witness ==
    /\ Passed("create_swapchain")
    /\ data_queue_family_indices.present < data_queue_family_indices.graphics
    /\ data_queue_family_indices = 
           [ graphics |-> FirstGraphics(phys_device.families) - 1,
             present |-> FirstPresent(phys_device.families) - 1 ]

ShaderModules == { "vert_shader_module", "frag_shader_module" }

\* the calls create_pipeline makes that `?` may end with an error
PipelineBuildCalls == { "create_shader_module_vert", "create_shader_module_frag",
                        "create_pipeline_layout" }

\* create_pipeline has returned, with Ok or with an error
PipelineBuildFinished ==
    \/ Passed("destroy_shader_modules")
    \/ pc = "create_err" /\ CreateCalls[cstep].call \in PipelineBuildCalls

\* C32: a shader module that create_pipeline has created is destroyed before
\* create_pipeline returns, and not before the graphics pipeline was created;
\* once create_pipeline has returned no shader module is alive, and none
\* comes back to life.
C32_ShaderModulesTransient ==
    /\ PipelineBuildFinished => \A k \in ShaderModules : ~Alive(k)
    /\ \A k \in ShaderModules : objs[k] = "destroyed" => objs["pipeline"] # "none"

\* name is among the entries of a list of names
Listed(name, names) == \E k \in 1 .. Len(names) : names[k] = name

\* C33: the instance is created with the validation layer exactly when
\* VALIDATION_ENABLED, and with the debug utils extension exactly when
\* VALIDATION_ENABLED; the debug callback is installed exactly when
\* VALIDATION_ENABLED; App::destroy removes the callback exactly when one was
\* installed.
C33_DiagnosticsToggle ==
    /\ Passed("create_instance") =>
           /\ Listed("VK_LAYER_KHRONOS_validation",
                     instance_create_info.enabled_layer_names) <=> validation
           /\ Listed("VK_EXT_debug_utils",
                     instance_create_info.enabled_extension_names) <=> validation
    /\ Passed("create_debug_utils_messenger") =>
           (objs["debug_call_back"] # "none" <=> validation)
    /\ pc = "destroyed" =>
           objs["debug_call_back"] = IF validation THEN "destroyed" ELSE "none"

\* App::create has returned Ok
Created == pc \notin { "create", "create_err", "panic_create" }

\* C34: once App::create has succeeded, framebuffers, command_buffers and
\* images_in_flight each have one entry per swapchain image; framebuffer k
\* has the view of image k as its attachment and command buffer k begins its
\* render pass on framebuffer k; images_in_flight is all null until a frame
\* is rendered, and each of its entries is always null or the index of one
\* of the N fences of in_flight_fences; the image index an acquisition has
\* returned is an index of all three.
C34_PerImageArrays ==
    Created =>
        /\ DOMAIN framebuffers = Images
        /\ DOMAIN command_buffers = Images
        /\ DOMAIN images_in_flight = Images
        /\ \A k \in Images :
               /\ framebuffers[k].attachments = << k >>
               /\ swapchain_image_views[k].image = k
               /\ command_buffers[k][2].op = "cmd_begin_render_pass"
               /\ command_buffers[k][2].args[1] = k
               /\ images_in_flight[k] = NULL \/ images_in_flight[k] \in 0 .. (N - 1)
               /\ images_in_flight[k] # NULL =>
                      images_in_flight[k] \in DOMAIN in_flight_fences
               /\ calls = 0 => images_in_flight[k] = NULL
        /\ image_index # NULL =>
               /\ image_index \in DOMAIN framebuffers
               /\ image_index \in DOMAIN command_buffers
               /\ image_index \in DOMAIN images_in_flight

\* the second image of a swapchain of two was acquired, by the call that
\* follows the one that recorded a fence for the first
C34_Witness ==
    /\ Created /\ swapchain_images = 2 /\ pc = "wait_image"
    /\ image_index = 1
    /\ images_in_flight[0] # NULL /\ images_in_flight[1] = NULL
====
